---------------------------- MODULE Spec2Model ----------------------------
(***************************************************************************)
(* A model of the x402 BCH facilitator's use case layer                    *)
(* (src/src/use-cases/facilitator.js): the UTXO-backed debit ledger        *)
(* (validateUtxo with its AddressDB helpers), the check-my-tab selector    *)
(* (findUtxoByAddress), and the verifyPayment / settlePayment pipelines.   *)
(*                                                                         *)
(* Every request runs as a process.  The code is a set of async functions  *)
(* on a single-threaded event loop: the code between two awaits runs       *)
(* atomically, and every await of a store, chain or wallet call is a point *)
(* where another request may run.  Each action below is one such segment:  *)
(* the awaited operation takes effect and the synchronous code after it    *)
(* runs up to the next await.                                              *)
(*                                                                         *)
(* Amounts are stored by the code as decimal strings of BigInt values and  *)
(* read back with BigInt(); for integers that round trip is exact, and the *)
(* model keeps the integers.  An optional value (null / undefined / an     *)
(* omitted field) is a sequence of length 0 or 1.                          *)
(***************************************************************************)
EXTENDS Integers, Sequences, FiniteSets, TLC

VARIABLES
    utxoDb,     \* levelDB.utxoDb: utxoId -> LedgerEntry, a partial function
    addressDb,  \* levelDB.addressDb: payer address -> list of LedgerEntry
    procs,      \* the requests in flight: position and local variables
    chain,      \* what the chain holds for each output, fixed once observed
    wallet,     \* the facilitator wallet: initialized, initializations made
    adapters,   \* the injected adapters (which Chain Client is in use)
    calls,      \* number of requests started so far
    now,        \* the clock
    accepted,   \* history: sum of the costs of the accepted debits per utxoId
    lowest,     \* history: lowest remaining / highest debited ever stored
    exhausted,  \* history: payloads whose completed call left remaining 0
    debitors,   \* history: per utxoId, the operation and the payload of
                \* each debit accepted
    before      \* history: the two stores as the call in flight found them

\* the state of the program and of its environment
sys == <<utxoDb, addressDb, procs, chain, wallet, adapters, calls, now>>

\* the history variables: they record what happened and steer nothing
hist == <<accepted, lowest, exhausted, debitors, before>>

vars == <<utxoDb, addressDb, procs, chain, wallet, adapters, calls, now,
          accepted, lowest, exhausted, debitors, before>>

---------------------------------------------------------------------------
(* Bounds of the model *)

\* number of verifyPayment / settlePayment requests in one behaviour
MaxCalls == 3

\* largest amount in satoshis: output values are 1..MaxSat, costs 0..MaxSat
MaxSat == 2

\* calls made in the pipeline scenarios
MaxPipelineCalls == 3

\* longest list of AddressDB in the selector scenarios
MaxLen == 2

---------------------------------------------------------------------------
(* Values *)

BCH_MAINNET_CAIP2 == "bip122:000000000000000000651ef99cb9fcbe"

\* config.serverBchAddress
serverBchAddress == "bitcoincash:qqlrzp23w08434twmvr4fxw672whkjy0py26r63g3d"

\* the value of a field that is undefined
Undefined == "undefined"

\* the request slots: two requests can be in flight at once
Procs == {"p1", "p2"}

\* a request takes the first free slot
FirstFree(p, ps) == p = "p1" \/ ps["p1"].pc # "idle"

\* payer addresses
Payers == {"A", "B"}

\* the outputs a payload can name: (txid, vout)
UtxoRefs == {<<"tx1", 0>>, <<"tx2", 1>>}

\* `${actualTxid}:${actualVout}`: the pair itself stands for the string
UtxoIdOf(txid, vout) == <<txid, vout>>

Costs == 0 .. MaxSat

None == << >>
Some(x) == << x >>
IsSome(m) == Len(m) > 0
Get(m) == m[1]

Min2(a, b) == IF a <= b THEN a ELSE b
Max2(a, b) == IF a >= b THEN a ELSE b

\* new Date().toISOString() (268, 317): the reading of the clock, which the
\* step that reads it records in `now`
Now == now'

\* the wall clock at a step that may read it: the time of the last reading,
\* or a later one
ClockRead == now' \in {now, now + 1}

---------------------------------------------------------------------------
(* Network Identity Resolver *)

normalizeNetwork(network) ==
    IF network = Undefined \/ network = "" THEN BCH_MAINNET_CAIP2
    ELSE IF network = "bch" THEN BCH_MAINNET_CAIP2
    ELSE IF network = BCH_MAINNET_CAIP2 THEN BCH_MAINNET_CAIP2
    ELSE network

\* a faulty networksMatch, which matches any two networks that normalize
\* to the same identifier
networksMatchEqual(network1, network2) ==
    normalizeNetwork(network1) = normalizeNetwork(network2)

\* a faulty networksMatch, which lets every pair of networks pass
networksMatchAlways(network1, network2) ==
    TRUE

networksMatch(network1, network2) ==
    LET normalized1 == normalizeNetwork(network1)
        normalized2 == normalizeNetwork(network2)
    IN  /\ normalized1 = BCH_MAINNET_CAIP2
        /\ normalized2 = BCH_MAINNET_CAIP2
        /\ normalized1 = normalized2

---------------------------------------------------------------------------
(* Store operations on partial functions *)

StoreHas(db, k) == k \in DOMAIN db

StorePut(db, k, v) ==
    [x \in (DOMAIN db) \cup {k} |-> IF x = k THEN v ELSE db[x]]

StoreDel(db, k) == [x \in (DOMAIN db) \ {k} |-> db[x]]

EmptyStore == [x \in {} |-> None]

---------------------------------------------------------------------------
(* Requests: paymentPayload and paymentRequirements *)

\* paymentRequirements?.amount ?? .minAmountRequired ?? .maxAmountRequired ?? 0
callCost(requirements) ==
    IF IsSome(requirements.amount) THEN Get(requirements.amount)
    ELSE IF IsSome(requirements.minAmountRequired)
         THEN Get(requirements.minAmountRequired)
    ELSE IF IsSome(requirements.maxAmountRequired)
         THEN Get(requirements.maxAmountRequired)
    ELSE 0

\* paymentPayload.accepted?.scheme ?? paymentPayload.scheme
payloadSchemeOf(paymentPayload) ==
    IF IsSome(paymentPayload.accepted)
       /\ Get(paymentPayload.accepted).scheme # Undefined
    THEN Get(paymentPayload.accepted).scheme
    ELSE paymentPayload.scheme

\* paymentPayload.accepted?.network ?? paymentPayload.network
payloadNetworkOf(paymentPayload) ==
    IF IsSome(paymentPayload.accepted)
       /\ Get(paymentPayload.accepted).network # Undefined
    THEN Get(paymentPayload.accepted).network
    ELSE paymentPayload.network

\* a v1 payload: scheme and network at the top level
PayloadV1(scheme, network, from, txid, vout, value, signature) ==
    [accepted |-> None, scheme |-> scheme, network |-> network,
     payload |-> Some([signature |-> signature,
                       authorization |-> Some([from |-> from,
                                               to |-> serverBchAddress,
                                               value |-> value,
                                               txid |-> txid,
                                               vout |-> vout])])]

\* a v2 payload: the scheme and network accepted are in its `accepted`
\* field, whatever it carries at the top level
PayloadV2(acceptedKind, scheme, network, from, txid, vout, value, sig) ==
    [PayloadV1(scheme, network, from, txid, vout, value, sig)
       EXCEPT !.accepted = Some(acceptedKind)]

\* v2 requirements: the cost is amount
RequirementsV2(scheme, network, payTo, cost) ==
    [scheme |-> scheme, network |-> network, payTo |-> payTo,
     amount |-> Some(cost), minAmountRequired |-> None,
     maxAmountRequired |-> None]

\* v1 requirements: the cost is minAmountRequired
RequirementsV1(scheme, network, payTo, cost) ==
    [scheme |-> scheme, network |-> network, payTo |-> payTo,
     amount |-> None, minAmountRequired |-> Some(cost),
     maxAmountRequired |-> None]

\* A request: the call made, its two arguments, and the answer the
\* Signature Verifier gives for the payload's signature.
Request(kind, paymentPayload, paymentRequirements, verifyMessage) ==
    [kind |-> kind, paymentPayload |-> paymentPayload,
     paymentRequirements |-> paymentRequirements,
     verifyMessage |-> verifyMessage, selectedUtxo |-> None]

\* A call of validateUtxo (140) by itself, with its three arguments; the
\* Signature Verifier is not asked.
ValidateRequest(paymentPayload, paymentRequirements, selectedUtxo) ==
    [kind |-> "validateUtxo", paymentPayload |-> paymentPayload,
     paymentRequirements |-> paymentRequirements,
     verifyMessage |-> "true", selectedUtxo |-> selectedUtxo]

\* The requests of the ledger scenarios: well-formed, correctly signed v1
\* payloads that pay the server; the payer, the output named (or "*"),
\* the cost and the call vary.  authorization.value equals the cost.
LedgerRequests ==
    { Request(kind,
              PayloadV1("utxo", "bch", from, ref[1], ref[2], cost, "sig"),
              RequirementsV1("utxo", "bch", serverBchAddress, cost),
              "true") :
        kind \in {"verify", "settle"}, from \in Payers,
        ref \in UtxoRefs \cup {<<"*", 0>>}, cost \in Costs }

\* The requests of the race scenarios, all of payer A with a positive cost:
\* verifyPayment on either output or on "*", and settlePayment of one
\* satoshi on the first output.
RaceRequests ==
    { r \in LedgerRequests :
        LET authorization == Get(Get(r.paymentPayload.payload).authorization)
            cost == callCost(r.paymentRequirements)
        IN  /\ authorization.from = "A"
            /\ cost > 0
            /\ r.kind = "settle" => authorization.txid = "tx1" /\ cost = 1 }

\* the payload without its payload object, its authorization or its
\* signature
WithShape(paymentPayload, shape) ==
    IF shape = "noPayload" THEN [paymentPayload EXCEPT !.payload = None]
    ELSE IF shape = "noAuthorization"
    THEN [paymentPayload EXCEPT
            !.payload = Some([Get(@) EXCEPT !.authorization = None])]
    ELSE IF shape = "noSignature"
    THEN [paymentPayload EXCEPT
            !.payload = Some([Get(@) EXCEPT !.signature = ""])]
    ELSE paymentPayload

Shapes == {"ok", "noPayload", "noAuthorization", "noSignature"}

\* network tags: v1, CAIP-2 of BCH mainnet, and a foreign chain
Networks == {"bch", BCH_MAINNET_CAIP2, "eip155:8453"}

Schemes == {"utxo", "exact"}

\* what bchjs.BitcoinCash.verifyMessage does with the signature
VerifyMessageOutcomes == {"true", "false", "throws"}

\* The requests of the pipeline scenarios.  Payer A pays one satoshi from
\* the first output.  In the first set the network and scheme of the
\* payload and of the requirements, the shape of the payload and the
\* answer of the Signature Verifier vary; in the second the payload is
\* well formed and the output named ("*" or a txid), the cost (one
\* satoshi, or more than any output holds) and, for settlePayment, which
\* alone reads it, authorization.value vary; in the
\* third the payload is a v2 one, whose `accepted` field and top level name
\* a scheme and a network each or leave them out, and the requirements
\* name BCH mainnet or no network; in the fourth a check-my-tab payload
\* has every shape and every answer of the Signature Verifier, and the
\* requirements name BCH mainnet or another chain.
PipelineRequests ==
    { Request(kind,
              WithShape(PayloadV1(payloadScheme, payloadNetwork, "A",
                                  "tx1", 0, 1, "sig"), shape),
              RequirementsV1(scheme, network, serverBchAddress, 1),
              verifyMessage) :
        kind \in {"verify", "settle"},
        payloadScheme \in Schemes, payloadNetwork \in Networks,
        scheme \in Schemes, network \in Networks,
        shape \in Shapes, verifyMessage \in VerifyMessageOutcomes }
    \cup
    { Request(call[1],
              PayloadV1("utxo", "bch", "A", txid, 0, call[2], "sig"),
              RequirementsV1("utxo", BCH_MAINNET_CAIP2, serverBchAddress,
                             cost),
              "true") :
        call \in {c \in {"verify", "settle"} \X (1..MaxSat) :
                    c[1] = "settle" \/ c[2] = 1},
        txid \in {"tx1", "*"}, cost \in {1, MaxSat + 1} }
    \cup
    { Request("verify",
              PayloadV2(acceptedKind, top[1], top[2], "A", "tx1", 0, 1,
                        "sig"),
              RequirementsV2("utxo", network, serverBchAddress, 1),
              "true") :
        acceptedKind \in
            {[scheme |-> "utxo", network |-> BCH_MAINNET_CAIP2],
             [scheme |-> "exact", network |-> "eip155:8453"],
             [scheme |-> Undefined, network |-> Undefined]},
        top \in {<<Undefined, Undefined>>, <<"exact", "eip155:8453">>,
                 <<"utxo", "">>},
        network \in {BCH_MAINNET_CAIP2, Undefined} }
    \cup
    { Request("verify",
              WithShape(PayloadV1("utxo", "bch", "A", "*", 0, 1, "sig"),
                        shape),
              RequirementsV1("utxo", network, serverBchAddress, 1),
              verifyMessage) :
        network \in {BCH_MAINNET_CAIP2, "eip155:8453"},
        shape \in Shapes, verifyMessage \in VerifyMessageOutcomes }

---------------------------------------------------------------------------
(* LedgerEntry records and the lists of AddressDB *)

\* a faulty NewRecord, which records the whole value as remaining
NewRecordUndebited(txid, vout, payerAddress, utxoValidation, cost, timestamp) ==
    [utxoId |-> UtxoIdOf(txid, vout), txid |-> txid, vout |-> vout,
     payerAddress |-> payerAddress,
     receiverAddress |-> utxoValidation.receiverAddress,
     transactionValueSat |-> Get(utxoValidation.utxoAmountSat),
     remainingBalanceSat |-> Get(utxoValidation.utxoAmountSat),
     totalDebitedSat |-> cost,
     lastUpdated |-> timestamp, firstSeen |-> timestamp,
     lastChecked |-> timestamp]

\* the record of a first debit (facilitator.js 268-281)
NewRecord(txid, vout, payerAddress, utxoValidation, cost, timestamp) ==
    [utxoId |-> UtxoIdOf(txid, vout), txid |-> txid, vout |-> vout,
     payerAddress |-> payerAddress,
     receiverAddress |-> utxoValidation.receiverAddress,
     transactionValueSat |-> Get(utxoValidation.utxoAmountSat),
     remainingBalanceSat |-> Get(utxoValidation.utxoAmountSat) - cost,
     totalDebitedSat |-> cost,
     lastUpdated |-> timestamp, firstSeen |-> timestamp,
     lastChecked |-> timestamp]

\* a faulty UpdatedRecord, which leaves totalDebitedSat as it was
UpdatedRecordStaleTotal(utxoInfo, cost, timestamp) ==
    [utxoInfo EXCEPT !.remainingBalanceSat = utxoInfo.remainingBalanceSat - cost,
                     !.lastUpdated = timestamp,
                     !.lastChecked = timestamp]

\* a faulty UpdatedRecord, which also stamps firstSeen
UpdatedRecordFresh(utxoInfo, cost, timestamp) ==
    [utxoInfo EXCEPT !.remainingBalanceSat = utxoInfo.remainingBalanceSat - cost,
                     !.totalDebitedSat = utxoInfo.totalDebitedSat + cost,
                     !.lastUpdated = timestamp,
                     !.firstSeen = timestamp,
                     !.lastChecked = timestamp]

\* a faulty UpdatedRecord, which stamps the entry without debiting it
UpdatedRecordFree(utxoInfo, cost, timestamp) ==
    [utxoInfo EXCEPT !.lastUpdated = timestamp,
                     !.lastChecked = timestamp]

\* the record of a debit of an existing entry (facilitator.js 316-324)
UpdatedRecord(utxoInfo, cost, timestamp) ==
    [utxoInfo EXCEPT !.remainingBalanceSat = utxoInfo.remainingBalanceSat - cost,
                     !.totalDebitedSat = utxoInfo.totalDebitedSat + cost,
                     !.lastUpdated = timestamp,
                     !.lastChecked = timestamp]

\* addressUtxos.findIndex(utxo => utxo.utxoId === utxoId), 1-based; 0 if none
findIndex(addressUtxos, utxoId) ==
    LET hits == {i \in 1 .. Len(addressUtxos) : addressUtxos[i].utxoId = utxoId}
    IN  IF hits = {} THEN 0 ELSE CHOOSE i \in hits : \A j \in hits : i <= j

\* addUtxoToAddressDb 370-378: replace the entry of the utxoId, or push
UpsertEntry(addressUtxos, utxoRecord) ==
    LET existingIndex == findIndex(addressUtxos, utxoRecord.utxoId)
    IN  IF existingIndex > 0
        THEN [addressUtxos EXCEPT ![existingIndex] = utxoRecord]
        ELSE Append(addressUtxos, utxoRecord)

\* removeUtxoFromAddressDb 432: addressUtxos.filter(u => u.utxoId !== utxoId)
FilterOut(addressUtxos, utxoId) ==
    LET Keep(e) == e.utxoId # utxoId
    IN  SelectSeq(addressUtxos, Keep)

\* a faulty RemoveWrite, which puts the filtered list even when it is empty
RemoveWriteAlwaysPut(db, payerAddress, filteredUtxos) ==
    StorePut(db, payerAddress, filteredUtxos)

\* removeUtxoFromAddressDb 434-440: del the key when nothing is left, else put
RemoveWrite(db, payerAddress, filteredUtxos) ==
    IF Len(filteredUtxos) = 0
    THEN StoreDel(db, payerAddress)
    ELSE StorePut(db, payerAddress, filteredUtxos)

---------------------------------------------------------------------------
(* UTXO Selector (check-my-tab) *)

\* the firstSeen of an entry that has none (timestamps are not negative)
NoTime == -1

\* new Date(utxo.firstSeen || 0).getTime() 125-126: a missing firstSeen
\* counts as the epoch
timeOf(firstSeen) == IF firstSeen = NoTime THEN 0 ELSE firstSeen

\* Array.prototype.sort with (a, b) => timeA - timeB: a stable sort by
\* firstSeen, written as an insertion sort
RECURSIVE InsertByFirstSeen(_, _)
InsertByFirstSeen(sorted, e) ==
    IF sorted = << >> THEN << e >>
    ELSE IF timeOf(Head(sorted).firstSeen) <= timeOf(e.firstSeen)
         THEN << Head(sorted) >> \o InsertByFirstSeen(Tail(sorted), e)
         ELSE << e >> \o sorted

RECURSIVE SortByFirstSeen(_)
SortByFirstSeen(list) ==
    IF list = << >> THEN << >>
    ELSE InsertByFirstSeen(SortByFirstSeen(SubSeq(list, 1, Len(list) - 1)),
                           list[Len(list)])

\* a faulty findUtxoByAddress, which does not sort the usable entries
findUtxoByAddressUnsorted(addressUtxos, payTo, requiredValue) ==
    LET Usable(utxo) == /\ utxo.receiverAddress = payTo
                        /\ utxo.remainingBalanceSat >= requiredValue
        validUtxos == SelectSeq(addressUtxos, Usable)
    IN  IF Len(validUtxos) > 0 THEN Some(validUtxos[1]) ELSE None

\* findUtxoByAddress 116-132 on the list read from AddressDB
findUtxoByAddress(addressUtxos, payTo, requiredValue) ==
    LET Usable(utxo) == /\ utxo.receiverAddress = payTo
                        /\ utxo.remainingBalanceSat >= requiredValue
        validUtxos == SortByFirstSeen(SelectSeq(addressUtxos, Usable))
    IN  IF Len(validUtxos) > 0 THEN Some(validUtxos[1]) ELSE None

---------------------------------------------------------------------------
(* Chain Client *)

\* what the chain can hold for an output: the address it pays and its value
ChainOutputs ==
    [address : {serverBchAddress, "bitcoincash:other"}, valueSats : 1 .. MaxSat]

\* BCHWalletAdapter.validateUtxo (part_000 29-62): the result carries no
\* receiverAddress
walletAdapter_validateUtxo(output) ==
    IF output.address # serverBchAddress
    THEN [isValid |-> FALSE, invalidReason |-> "invalid_receiver_address",
          utxoAmountSat |-> None, receiverAddress |-> Undefined]
    ELSE [isValid |-> TRUE, invalidReason |-> "valid_utxo",
          utxoAmountSat |-> Some(output.valueSats),
          receiverAddress |-> Undefined]

\* A Chain Client as the unit tests inject it (leveldb-unit.js 127-131):
\* the result also carries the receiverAddress of the output.
contract_validateUtxo(output) ==
    IF output.address # serverBchAddress
    THEN [isValid |-> FALSE, invalidReason |-> "invalid_receiver_address",
          utxoAmountSat |-> None, receiverAddress |-> Undefined]
    ELSE [isValid |-> TRUE, invalidReason |-> "",
          utxoAmountSat |-> Some(output.valueSats),
          receiverAddress |-> output.address]

---------------------------------------------------------------------------
(* Results *)

\* a result of validateUtxo
DebitResult(isValid, invalidReason, remainingBalanceSat, utxoInfo) ==
    [isValid |-> isValid, invalidReason |-> invalidReason,
     remainingBalanceSat |-> remainingBalanceSat, utxoInfo |-> utxoInfo]

\* a faulty VerifyInvalid, which reports every rejection as a bad signature
VerifyInvalidAsSignature(invalidReason, payer) ==
    [isValid |-> FALSE,
     invalidReason |-> "invalid_exact_bch_payload_signature",
     payer |-> payer, remainingBalanceSat |-> None, ledgerEntry |-> None]

\* an invalid result of verifyPayment
VerifyInvalid(invalidReason, payer) ==
    [isValid |-> FALSE, invalidReason |-> invalidReason, payer |-> payer,
     remainingBalanceSat |-> None, ledgerEntry |-> None]

\* verifyPayment 558-585: the VerifyResult made of validateUtxo's result
VerifyResultOf(utxoValidation, payerAddress) ==
    IF ~utxoValidation.isValid
    THEN VerifyInvalid(IF utxoValidation.invalidReason = ""
                       THEN "invalid_utxo"
                       ELSE utxoValidation.invalidReason, payerAddress)
    ELSE [isValid |-> TRUE, invalidReason |-> "", payer |-> payerAddress,
          remainingBalanceSat |-> utxoValidation.remainingBalanceSat,
          ledgerEntry |->
              IF IsSome(utxoValidation.utxoInfo)
              THEN LET e == Get(utxoValidation.utxoInfo)
                   IN  Some([utxoId |-> e.utxoId,
                             transactionValueSat |-> e.transactionValueSat,
                             totalDebitedSat |-> e.totalDebitedSat,
                             lastUpdated |-> e.lastUpdated])
              ELSE None]

\* a faulty SettleFailure, which answers with the v1 tag of the network
SettleFailureV1(errorReason, payer) ==
    [success |-> FALSE, errorReason |-> errorReason, transaction |-> "",
     network |-> "bch", payer |-> payer, remainingBalanceSat |-> None]

\* a failed SettleResult (settlePayment 616-622, 650-656, 670-676, 705-711)
SettleFailure(errorReason, payer) ==
    [success |-> FALSE, errorReason |-> errorReason, transaction |-> "",
     network |-> BCH_MAINNET_CAIP2, payer |-> payer,
     remainingBalanceSat |-> None]

\* a faulty SettleInvalid, which drops the reason of the verification
SettleInvalidGeneric(verification) ==
    SettleFailure("invalid_payment", verification.payer)

\* settlePayment 614-623: the SettleResult of an invalid verification
SettleInvalid(verification) ==
    SettleFailure(IF verification.invalidReason = "" THEN "invalid_payment"
                  ELSE verification.invalidReason,
                  verification.payer)

\* settlePayment 690-701
SettleSuccess(txid, verification) ==
    [success |-> TRUE, errorReason |-> "", transaction |-> txid,
     network |-> BCH_MAINNET_CAIP2, payer |-> verification.payer,
     remainingBalanceSat |-> verification.remainingBalanceSat]

---------------------------------------------------------------------------
(* Processes *)

IdleProc ==
    [pc |-> "idle", req |-> None, utxoId |-> None, selectedUtxo |-> None,
     utxoInfo |-> None, rec |-> None, list |-> << >>, verification |-> None,
     sends |-> 0, result |-> None, readGone |-> FALSE,
     called |-> {}, balance |-> None, outputs |-> << >>, txid |-> None,
     threw |-> {}]

ReqOf(pr) == Get(pr.req)
AuthOf(pr) == Get(Get(ReqOf(pr).paymentPayload.payload).authorization)
CostOf(pr) == callCost(ReqOf(pr).paymentRequirements)
PayerOf(pr) == AuthOf(pr).from
IsCheckMyTab(pr) == AuthOf(pr).txid = "*"

\* the request calls the collaborator `who`: the Signature Verifier
\* ("verifier"), a ledger store ("store"), the Chain Client ("chain") or
\* the wallet ("initializeWallet", "getBalance", "send")
Calling(pr, who) == [pr EXCEPT !.called = @ \cup {who}]

\* the request has returned `result` to its caller
Done(pr, result) ==
    [pr EXCEPT !.pc = "done", !.result = Some(result), !.selectedUtxo = None,
               !.utxoInfo = None, !.rec = None, !.list = << >>]

\* verifyPayment has produced `verification`: it is the result of a
\* verifyPayment request; settlePayment, which awaits it (612), returns a
\* failure if it is invalid (614-623) and else goes on with the wallet.
AfterVerify(pr, verification) ==
    LET verified == [pr EXCEPT !.verification = Some(verification)]
    IN  IF ReqOf(pr).kind = "verify" THEN Done(verified, verification)
        ELSE IF ~verification.isValid
        THEN Done(verified, SettleInvalid(verification))
        ELSE [verified EXCEPT !.pc = "isWalletInitialized",
                              !.selectedUtxo = None, !.utxoInfo = None,
                              !.rec = None, !.list = << >>]

\* validateUtxo returns utxoValidation: to verifyPayment (555-585), or to
\* the caller of validateUtxo itself
ReturnDebit(pr, utxoValidation) ==
    IF ReqOf(pr).kind = "validateUtxo" THEN Done(pr, utxoValidation)
    ELSE AfterVerify(pr, VerifyResultOf(utxoValidation, PayerOf(pr)))

\* a faulty Thrown, which lets the exception leave the call: the call ends
\* and the caller has no result
ThrownPropagated(pr) ==
    [pr EXCEPT !.pc = "done"]

\* validateUtxo 343-350: an exception is caught and returned as a value
Thrown(pr) ==
    ReturnDebit(pr, DebitResult(FALSE, "unexpected_utxo_validation_error",
                                None, None))

\* settlePayment 702-712: an exception is caught and returned as a value
SettleThrown(pr) ==
    Done(pr, SettleFailure("unexpected_settle_error", PayerOf(pr)))

\* whether a call of the collaborator throws: it can when the adapter is
\* one that fails
MayThrow(fails) == IF adapters[fails] THEN {FALSE, TRUE} ELSE {FALSE}

\* the request remembers the call that threw: of the Signature Verifier
\* ("verifier"), of the Chain Client ("chain"), of the wallet ("wallet"),
\* a get of AddressDB ("addressDb"), the put of a list by
\* addUtxoToAddressDb or updateUtxoInAddressDb ("addressDb.put"), the del
\* or put of removeUtxoFromAddressDb ("addressDb.remove"), or the get, put
\* or del of UtxoDB
Threw(pr, throws, what) ==
    IF throws THEN [pr EXCEPT !.threw = @ \cup {what}] ELSE pr

\* a step of p that has built no record has not read the clock, and `now`
\* is the reading it was.  Times are counted from the first reading, which
\* is 1; 0 is the time before it.
ClockKept(p) == IF procs'[p].rec = None THEN now' = now ELSE now' > 0

\* a faulty DebitExisting, which debits without the check of the balance
DebitExistingUnchecked(pr, utxoInfo) ==
    [pr EXCEPT !.pc = "updatePut",
               !.utxoInfo = Some(utxoInfo),
               !.rec = Some(UpdatedRecord(utxoInfo, CostOf(pr), Now))]

\* a faulty DebitExisting, which lets only the payer of the entry debit it
DebitExistingOwnerOnly(pr, utxoInfo) ==
    LET callCostSat == CostOf(pr)
        currentRemainingSat == utxoInfo.remainingBalanceSat
        updatedRemainingSat == currentRemainingSat - callCostSat
    IN  IF updatedRemainingSat < 0 \/ utxoInfo.payerAddress # PayerOf(pr)
        THEN ReturnDebit(pr, DebitResult(FALSE, "insufficient_utxo_balance",
                                         Some(currentRemainingSat), None))
        ELSE [pr EXCEPT !.pc = "updatePut",
                        !.utxoInfo = Some(utxoInfo),
                        !.rec = Some(UpdatedRecord(utxoInfo, callCostSat, Now))]

\* validateUtxo 298-326 on the entry utxoInfo: reject the debit, or build
\* the updated record and put it
DebitExisting(pr, utxoInfo) ==
    LET callCostSat == CostOf(pr)
        currentRemainingSat == utxoInfo.remainingBalanceSat
        updatedRemainingSat == currentRemainingSat - callCostSat
    IN  IF updatedRemainingSat < 0
        THEN ReturnDebit(pr, DebitResult(FALSE, "insufficient_utxo_balance",
                                         Some(currentRemainingSat), None))
        ELSE [pr EXCEPT !.pc = "updatePut",
                        !.utxoInfo = Some(utxoInfo),
                        !.rec = Some(UpdatedRecord(utxoInfo, callCostSat, Now))]

\* a faulty ReturnUpdated, which reports the debit it has written as
\* rejected
ReturnUpdatedRejected(pr) ==
    ReturnDebit(pr, DebitResult(FALSE, "insufficient_utxo_balance",
                                Some(Get(pr.rec).remainingBalanceSat), None))

\* validateUtxo 338-342: the debit of an existing entry is accepted
ReturnUpdated(pr) ==
    ReturnDebit(pr, DebitResult(TRUE, "",
                                Some(Get(pr.rec).remainingBalanceSat), pr.rec))

\* a faulty AfterIndexUpdate, which takes a consumed entry out of the index
\* without the del of UtxoDB
AfterIndexUpdateSkipsDel(pr) ==
    IF Get(pr.rec).remainingBalanceSat = 0
    THEN [pr EXCEPT !.pc = "remGet", !.list = << >>]
    ELSE ReturnUpdated(pr)

\* a faulty AfterIndexUpdate, which keeps a consumed entry
AfterIndexUpdateKeeps(pr) ==
    ReturnUpdated(pr)

\* validateUtxo 331-342 after updateUtxoInAddressDb: delete a consumed
\* entry, else return
AfterIndexUpdate(pr) ==
    IF Get(pr.rec).remainingBalanceSat = 0
    THEN [pr EXCEPT !.pc = "utxoDel", !.list = << >>]
    ELSE ReturnUpdated(pr)

---------------------------------------------------------------------------
(* Initial state: empty stores, nothing in flight *)

\* either Chain Client is injected; the chain is not yet observed
Init ==
    /\ utxoDb = EmptyStore
    /\ addressDb = EmptyStore
    /\ procs = [p \in Procs |-> IdleProc]
    /\ chain = [u \in UtxoRefs |-> None]
    /\ wallet = [initialized |-> FALSE, initCalls |-> 0]
    /\ adapters \in [chainClient : {"walletAdapter", "contract"},
                   levelDB : {TRUE}, storeThrows : {FALSE},
                   chainThrows : {FALSE}, walletThrows : {FALSE}]
    /\ calls = 0
    /\ now = 0
    /\ accepted = [u \in UtxoRefs |-> 0]
    /\ lowest = [u \in UtxoRefs |-> None]
    /\ exhausted = {}
    /\ debitors = [u \in UtxoRefs |-> {}]
    /\ before = <<EmptyStore, EmptyStore>>

\* both outputs pay the server: the first MaxSat satoshis, the second one
FundedChain ==
    [u \in UtxoRefs |->
        Some([address |-> serverBchAddress,
              valueSats |-> IF u[1] = "tx1" THEN MaxSat ELSE 1])]

\* empty stores, and a chain that holds both outputs
InitFunded ==
    /\ utxoDb = EmptyStore
    /\ addressDb = EmptyStore
    /\ procs = [p \in Procs |-> IdleProc]
    /\ chain = FundedChain
    /\ wallet = [initialized |-> FALSE, initCalls |-> 0]
    /\ adapters = [chainClient |-> "contract", levelDB |-> TRUE,
                   storeThrows |-> FALSE, chainThrows |-> FALSE,
                   walletThrows |-> FALSE]
    /\ calls = 0
    /\ now = 0
    /\ accepted = [u \in UtxoRefs |-> 0]
    /\ lowest = [u \in UtxoRefs |-> None]
    /\ exhausted = {}
    /\ debitors = [u \in UtxoRefs |-> {}]
    /\ before = <<EmptyStore, EmptyStore>>

\* the first output pays the server twice the highest cost
RichChain ==
    [u \in UtxoRefs |->
        Some([address |-> serverBchAddress,
              valueSats |-> IF u[1] = "tx1" THEN 2 * MaxSat ELSE 1])]

\* empty stores, and a chain whose first output covers two debits of any
\* cost
InitSettle ==
    /\ utxoDb = EmptyStore
    /\ addressDb = EmptyStore
    /\ procs = [p \in Procs |-> IdleProc]
    /\ chain = RichChain
    /\ wallet = [initialized |-> FALSE, initCalls |-> 0]
    /\ adapters = [chainClient |-> "contract", levelDB |-> TRUE,
                   storeThrows |-> FALSE, chainThrows |-> FALSE,
                   walletThrows |-> FALSE]
    /\ calls = 0
    /\ now = 0
    /\ accepted = [u \in UtxoRefs |-> 0]
    /\ lowest = [u \in UtxoRefs |-> None]
    /\ exhausted = {}
    /\ debitors = [u \in UtxoRefs |-> {}]
    /\ before = <<EmptyStore, EmptyStore>>

\* empty stores; the stores may be missing, and the stores, the Chain
\* Client and the wallet may throw
InitPipeline ==
    /\ utxoDb = EmptyStore
    /\ addressDb = EmptyStore
    /\ procs = [p \in Procs |-> IdleProc]
    /\ chain = FundedChain
    /\ wallet = [initialized |-> FALSE, initCalls |-> 0]
    /\ adapters \in [chainClient : {"walletAdapter", "contract"},
                   levelDB : BOOLEAN, storeThrows : BOOLEAN,
                   chainThrows : {TRUE}, walletThrows : {TRUE}]
    /\ calls = 0
    /\ now = 0
    /\ accepted = [u \in UtxoRefs |-> 0]
    /\ lowest = [u \in UtxoRefs |-> None]
    /\ exhausted = {}
    /\ debitors = [u \in UtxoRefs |-> {}]
    /\ before = <<EmptyStore, EmptyStore>>

\* empty stores and a chain that holds both outputs; the stores may be
\* missing or throw
InitValidate ==
    /\ utxoDb = EmptyStore
    /\ addressDb = EmptyStore
    /\ procs = [p \in Procs |-> IdleProc]
    /\ chain = FundedChain
    /\ wallet = [initialized |-> FALSE, initCalls |-> 0]
    /\ adapters \in [chainClient : {"contract"},
                   levelDB : BOOLEAN, storeThrows : BOOLEAN,
                   chainThrows : {FALSE}, walletThrows : {FALSE}]
    /\ calls = 0
    /\ now = 0
    /\ accepted = [u \in UtxoRefs |-> 0]
    /\ lowest = [u \in UtxoRefs |-> None]
    /\ exhausted = {}
    /\ debitors = [u \in UtxoRefs |-> {}]
    /\ before = <<EmptyStore, EmptyStore>>

\* the outputs that the entries of the selector scenarios name, by their
\* place in the list
SelectorTxids == <<"tx1", "tx2", "tx3", "tx4">>

\* an entry of AddressDB as a debit of the output in place i leaves it;
\* firstSeen is missing in entries written before the field existed
SelectorEntries(i) ==
    { [utxoId |-> UtxoIdOf(SelectorTxids[i], 0), txid |-> SelectorTxids[i],
       vout |-> 0, payerAddress |-> "A", receiverAddress |-> receiver,
       transactionValueSat |-> 2, remainingBalanceSat |-> remaining,
       totalDebitedSat |-> 2 - remaining,
       lastUpdated |-> 2, firstSeen |-> firstSeen, lastChecked |-> 2] :
        receiver \in {serverBchAddress, "bitcoincash:other"},
        remaining \in 0 .. 2,
        firstSeen \in {NoTime, 0, 1} }

\* the lists of at most MaxLen such entries
SelectorLists ==
    UNION { { list \in [1 .. n -> UNION {SelectorEntries(i) : i \in 1 .. n}] :
                \A i \in 1 .. n : list[i] \in SelectorEntries(i) } :
            n \in 0 .. MaxLen }

\* AddressDB holds a list for payer A, or nothing; the stores work, throw
\* or are missing
InitSelector ==
    /\ utxoDb = EmptyStore
    /\ \E list \in SelectorLists :
          addressDb = IF list = << >> THEN EmptyStore
                      ELSE StorePut(EmptyStore, "A", list)
    /\ procs = [p \in Procs |-> IdleProc]
    /\ chain = FundedChain
    /\ wallet = [initialized |-> FALSE, initCalls |-> 0]
    /\ adapters \in { [chainClient |-> "contract", levelDB |-> store[1],
                       storeThrows |-> store[2], chainThrows |-> FALSE,
                       walletThrows |-> FALSE] :
                        store \in {<<TRUE, FALSE>>, <<TRUE, TRUE>>,
                                   <<FALSE, FALSE>>} }
    /\ calls = 0
    /\ now = 2
    /\ accepted = [u \in UtxoRefs |-> 0]
    /\ lowest = [u \in UtxoRefs |-> None]
    /\ exhausted = {}
    /\ debitors = [u \in UtxoRefs |-> {}]
    /\ before = <<EmptyStore, EmptyStore>>

---------------------------------------------------------------------------
(* verifyPayment / settlePayment up to the first await *)

\* validateUtxo 140-231 called by itself with request r: the authorization
\* must be there, and in check-my-tab mode the selected entry; nothing else
\* of the payload or of the requirements is checked.  The read of UtxoDB is
\* issued.
BeginValidate(r) ==
    LET pr == [IdleProc EXCEPT !.req = Some(r)]
        payload == r.paymentPayload.payload
    IN  IF ~IsSome(payload) \/ ~IsSome(Get(payload).authorization)
        THEN Done(pr, DebitResult(FALSE, "missing_authorization", None, None))
        ELSE IF IsCheckMyTab(pr) /\ ~IsSome(r.selectedUtxo)
        THEN Done(pr, DebitResult(FALSE, "no_utxo_found_for_address",
                                  None, None))
        ELSE IF ~adapters.levelDB
        THEN Thrown(pr)
        ELSE [Calling(pr, "store")
                EXCEPT !.pc = "utxoGet",
                       !.selectedUtxo = r.selectedUtxo,
                       !.utxoId =
                          IF IsCheckMyTab(pr)
                          THEN Some(UtxoIdOf(Get(r.selectedUtxo).txid,
                                             Get(r.selectedUtxo).vout))
                          ELSE Some(UtxoIdOf(AuthOf(pr).txid,
                                             AuthOf(pr).vout))]

\* verifyPayment 461-555 and validateUtxo 179-231 for request r: the
\* checks of network, scheme, payload shape and signature, then the read of
\* AddressDB (check-my-tab) or of UtxoDB is issued.
Begin(r) ==
    LET pr == [IdleProc EXCEPT !.req = Some(r)]
        paymentPayload == r.paymentPayload
        paymentRequirements == r.paymentRequirements
        payload == paymentPayload.payload
    IN  IF r.kind = "validateUtxo" THEN BeginValidate(r)
        ELSE IF ~networksMatch(paymentRequirements.network,
                          payloadNetworkOf(paymentPayload))
        THEN AfterVerify(pr, VerifyInvalid("invalid_network", ""))
        ELSE IF paymentRequirements.scheme # "utxo"
                \/ payloadSchemeOf(paymentPayload) # "utxo"
        THEN AfterVerify(pr, VerifyInvalid("invalid_scheme", ""))
        ELSE IF \/ ~IsSome(payload)
                \/ ~IsSome(Get(payload).authorization)
                \/ Get(payload).signature = ""
        THEN AfterVerify(pr, VerifyInvalid("invalid_payload", ""))
        ELSE IF r.verifyMessage # "true"
        THEN AfterVerify(Threw(Calling(pr, "verifier"),
                               r.verifyMessage = "throws", "verifier"),
                         VerifyInvalid("invalid_exact_bch_payload_signature",
                                       PayerOf(pr)))
        ELSE IF IsCheckMyTab(pr)
        THEN IF adapters.levelDB
             THEN [Calling(Calling(pr, "verifier"), "store")
                     EXCEPT !.pc = "findGet"]
             ELSE AfterVerify(Calling(pr, "verifier"),
                              VerifyInvalid("no_utxo_found_for_address",
                                            PayerOf(pr)))
        ELSE IF adapters.levelDB
        THEN [Calling(Calling(pr, "verifier"), "store")
                EXCEPT !.pc = "utxoGet",
                       !.utxoId = Some(UtxoIdOf(AuthOf(pr).txid,
                                                AuthOf(pr).vout))]
        ELSE ReturnDebit(Calling(pr, "verifier"), DebitResult(FALSE,
                 "unexpected_utxo_validation_error", None, None))

\* no request is in flight
Quiescent == \A q \in Procs : procs[q].pc = "idle"

\* Request r arrives: the call runs up to its first await.  No clock is
\* read.
StartWith(p, r) ==
    /\ procs[p].pc = "idle"
    /\ FirstFree(p, procs)
    /\ calls < MaxCalls
    /\ procs' = [procs EXCEPT ![p] = Begin(r)]
    /\ calls' = calls + 1
    /\ UNCHANGED <<utxoDb, addressDb, chain, wallet, adapters, now>>

\* a request arrives, possibly while another is in flight
Start(p) == \E r \in RaceRequests : StartWith(p, r)

\* a request arrives while no other is in flight
StartSeq(p) ==
    /\ Quiescent
    /\ \E r \in LedgerRequests : StartWith(p, r)

\* network identifiers: absent, empty, v1, the CAIP-2 identifier of BCH
\* mainnet, and identifiers of other chains (one of them a bip122 one)
NetworkIds ==
    {Undefined, "", "bch", BCH_MAINNET_CAIP2, "btc",
     "bip122:000000000019d6689c085ae165831e93", "eip155:8453"}

\* the requests of the network scenarios: well formed and correctly
\* signed, with every pair of network identifiers
NetworkRequests ==
    { Request(kind,
              PayloadV1("utxo", payloadNetwork, "A", "tx1", 0, 1, "sig"),
              RequirementsV1("utxo", network, serverBchAddress, 1), "true") :
        kind \in {"verify", "settle"},
        payloadNetwork \in NetworkIds, network \in NetworkIds }

\* a verifyPayment of the ledger scenarios arrives while no other request
\* is in flight
StartTab(p) ==
    /\ Quiescent
    /\ \E r \in {q \in LedgerRequests : q.kind = "verify"} : StartWith(p, r)

\* the requests of the settlement scenarios: payer A pays a positive cost
\* from the first output
SettleRequests ==
    { r \in LedgerRequests :
        LET authorization == Get(Get(r.paymentPayload.payload).authorization)
        IN  /\ authorization.from = "A"
            /\ authorization.txid = "tx1"
            /\ callCost(r.paymentRequirements) > 0 }

\* a request of the settlement scenarios arrives while no other is in
\* flight: first a verifyPayment, then settlePayment calls
StartSettle(p) ==
    /\ Quiescent
    /\ \E r \in SettleRequests :
         /\ r.kind = (IF calls = 0 THEN "verify" ELSE "settle")
         /\ StartWith(p, r)

\* the entries of the lists of AddressDB
IndexEntries ==
    UNION { {addressDb[a][i] : i \in 1 .. Len(addressDb[a])} :
            a \in DOMAIN addressDb }

\* The calls of validateUtxo by itself: the payload carries a foreign
\* network and scheme and no signature, and may lack its payload object or
\* its authorization; the payer, the output named (or "*") and the cost
\* vary; the selected entry is missing or an entry of AddressDB.
ValidateRequests ==
    { ValidateRequest(
          WithShape(PayloadV1("exact", "eip155:8453", from, ref[1], ref[2],
                              cost, ""), shape),
          RequirementsV1("exact", "eip155:8453", serverBchAddress, cost),
          selectedUtxo) :
        from \in Payers, ref \in UtxoRefs \cup {<<"*", 0>>},
        cost \in 1 .. MaxSat,
        shape \in {"ok", "noPayload", "noAuthorization"},
        selectedUtxo \in {None} \cup {Some(e) : e \in IndexEntries} }

\* validateUtxo is called by itself while no other call is in flight
StartValidate(p) ==
    /\ Quiescent
    /\ \E r \in ValidateRequests : StartWith(p, r)

\* a request of the network scenarios arrives
StartNetworks(p) ==
    /\ Quiescent
    /\ \E r \in NetworkRequests : StartWith(p, r)

\* the check-my-tab requests of the selector scenarios: the payer, payTo
\* and the cost vary
SelectorRequests ==
    { Request("verify",
              PayloadV1("utxo", "bch", from, "*", 0, cost, "sig"),
              RequirementsV1("utxo", "bch", payTo, cost), "true") :
        from \in Payers,
        payTo \in {serverBchAddress, "bitcoincash:other"},
        cost \in 1 .. 2 }

\* a check-my-tab request arrives
StartSelector(p) ==
    /\ Quiescent
    /\ \E r \in SelectorRequests : StartWith(p, r)

\* a request of the pipeline scenarios arrives while no other is in flight
StartPipeline(p) ==
    /\ Quiescent
    /\ calls < MaxPipelineCalls
    /\ \E r \in PipelineRequests : StartWith(p, r)

---------------------------------------------------------------------------
(* findUtxoByAddress *)

\* addressDb.get(payerAddress) of findUtxoByAddress 107 answers; the entry
\* is selected (116-132) and validateUtxo runs up to utxoDb.get (195-231)
FindGet(p) ==
    LET pr == procs[p]
        payerAddress == PayerOf(pr)
        Selected(throws) ==
            IF ~throws /\ StoreHas(addressDb, payerAddress)
            THEN findUtxoByAddress(addressDb[payerAddress],
                                   ReqOf(pr).paymentRequirements.payTo,
                                   CostOf(pr))
            ELSE None
    IN  /\ pr.pc = "findGet"
        /\ \E throws \in MayThrow("storeThrows") :
             LET selectedUtxo == Selected(throws)
             IN  procs' = [procs EXCEPT ![p] =
                   IF ~IsSome(selectedUtxo)
                   THEN AfterVerify(Threw(pr, throws, "addressDb"),
                                    VerifyInvalid(
                            "no_utxo_found_for_address", payerAddress))
                   ELSE [pr EXCEPT
                           !.pc = "utxoGet",
                           !.selectedUtxo = selectedUtxo,
                           !.utxoId = Some(UtxoIdOf(Get(selectedUtxo).txid,
                                                    Get(selectedUtxo).vout))]]
        /\ UNCHANGED <<utxoDb, addressDb, chain, wallet, adapters, calls, now>>

---------------------------------------------------------------------------
(* validateUtxo *)

\* a faulty UtxoGet, which lets a failure of utxoDb.get end the debit
UtxoGetPropagates(p) ==
    LET pr == procs[p]
        utxoId == Get(pr.utxoId)
    IN  /\ pr.pc = "utxoGet"
        /\ ClockRead
        /\ \E throws \in MayThrow("storeThrows") :
             procs' = [procs EXCEPT ![p] =
               IF throws THEN Thrown(Threw(pr, TRUE, "utxoDb.get"))
               ELSE IF StoreHas(utxoDb, utxoId)
               THEN DebitExisting(pr, utxoDb[utxoId])
               ELSE IF IsCheckMyTab(pr) /\ IsSome(pr.selectedUtxo)
               THEN [pr EXCEPT !.pc = "repairPut"]
               ELSE [Calling(pr, "chain") EXCEPT !.pc = "chainValidate"]]
        /\ UNCHANGED <<utxoDb, addressDb, chain, wallet, adapters, calls>>
        /\ ClockKept(p)

\* a faulty UtxoGet, which asks the chain for every entry it does not find
UtxoGetAsksChain(p) ==
    LET pr == procs[p]
        utxoId == Get(pr.utxoId)
    IN  /\ pr.pc = "utxoGet"
        /\ ClockRead
        /\ \E throws \in MayThrow("storeThrows") :
             procs' = [procs EXCEPT ![p] =
               IF ~throws /\ StoreHas(utxoDb, utxoId)
               THEN DebitExisting(pr, utxoDb[utxoId])
               ELSE [Calling(Threw(pr, throws, "utxoDb.get"), "chain")
                       EXCEPT !.pc = "chainValidate"]]
        /\ UNCHANGED <<utxoDb, addressDb, chain, wallet, adapters, calls>>
        /\ ClockKept(p)

\* utxoDb.get(utxoId) 231 answers: the entry is debited (298-326), or it is
\* missing and the selected entry is put as a repair (241-245) or the chain
\* is asked (248)
UtxoGet(p) ==
    LET pr == procs[p]
        utxoId == Get(pr.utxoId)
    IN  /\ pr.pc = "utxoGet"
        /\ ClockRead
        /\ \E throws \in MayThrow("storeThrows") :
             procs' = [procs EXCEPT ![p] =
               IF ~throws /\ StoreHas(utxoDb, utxoId)
               THEN DebitExisting(pr, utxoDb[utxoId])
               ELSE IF IsCheckMyTab(pr) /\ IsSome(pr.selectedUtxo)
               THEN [Threw(pr, throws, "utxoDb.get")
                       EXCEPT !.pc = "repairPut"]
               ELSE [Calling(Threw(pr, throws, "utxoDb.get"), "chain")
                       EXCEPT !.pc = "chainValidate"]]
        /\ UNCHANGED <<utxoDb, addressDb, chain, wallet, adapters, calls>>
        /\ ClockKept(p)

\* utxoDb.put(utxoId, selectedUtxo) 245 takes effect; the selected entry is
\* debited (298-326)
RepairPut(p) ==
    LET pr == procs[p]
        utxoId == Get(pr.utxoId)
        utxoInfo == Get(pr.selectedUtxo)
    IN  /\ pr.pc = "repairPut"
        /\ ClockRead
        /\ \E throws \in MayThrow("storeThrows") :
             /\ utxoDb' = IF throws THEN utxoDb
                          ELSE StorePut(utxoDb, utxoId, utxoInfo)
             /\ procs' = [procs EXCEPT ![p] =
                   IF throws THEN Thrown(Threw(pr, TRUE, "utxoDb.put"))
                   ELSE DebitExisting(pr, utxoInfo)]
        /\ UNCHANGED <<addressDb, chain, wallet, adapters, calls>>
        /\ ClockKept(p)

\* the answer of the Chain Client for the output
ChainAnswer(output) ==
    IF adapters.chainClient = "walletAdapter"
    THEN walletAdapter_validateUtxo(output)
    ELSE contract_validateUtxo(output)

\* validateUtxo 251-283 on the answer of the Chain Client: reject, or build
\* the record of the first debit and put it
FirstDebit(pr, utxoValidation) ==
    LET utxoId == Get(pr.utxoId)
        callCostSat == CostOf(pr)
    IN  IF ~utxoValidation.isValid
        THEN ReturnDebit(pr, DebitResult(FALSE,
                 IF utxoValidation.invalidReason = "" THEN "utxo_not_found"
                 ELSE utxoValidation.invalidReason, None, None))
        ELSE IF Get(utxoValidation.utxoAmountSat) - callCostSat < 0
        THEN ReturnDebit(pr, DebitResult(FALSE, "insufficient_utxo_balance",
                                         None, None))
        ELSE [pr EXCEPT !.pc = "createPut",
                        !.rec = Some(NewRecord(utxoId[1], utxoId[2],
                                               PayerOf(pr), utxoValidation,
                                               callCostSat, Now))]

\* what err.message can be
ErrMessages == {"", "Network Error"}

\* the Chain Client fails while it looks the output up: the wallet adapter
\* catches (part_000 63-71) and answers invalid with err.message; another
\* Chain Client throws, which validateUtxo catches (343-350)
ChainThrows(pr, message) ==
    IF adapters.chainClient = "walletAdapter"
    THEN FirstDebit(Threw(pr, TRUE, "chain"),
                    [isValid |-> FALSE, invalidReason |-> message,
                     utxoAmountSat |-> None, receiverAddress |-> Undefined])
    ELSE Thrown(Threw(pr, TRUE, "chain"))

\* walletAdapter.validateUtxo 248 answers
ChainValidate(p) ==
    LET pr == procs[p]
        utxoId == Get(pr.utxoId)
    IN  /\ pr.pc = "chainValidate"
        /\ ClockRead
        /\ \/ \E output \in (IF IsSome(chain[utxoId])
                               THEN {Get(chain[utxoId])} ELSE ChainOutputs) :
                /\ chain' = [chain EXCEPT ![utxoId] = Some(output)]
                /\ procs' = [procs EXCEPT ![p] =
                                 FirstDebit(pr, ChainAnswer(output))]
           \/ /\ adapters.chainThrows
              /\ chain' = chain
              /\ \E message \in ErrMessages :
                   procs' = [procs EXCEPT ![p] = ChainThrows(pr, message)]
        /\ UNCHANGED <<utxoDb, addressDb, wallet, adapters, calls>>
        /\ ClockKept(p)

\* utxoDb.put(utxoId, record) 283 takes effect; addUtxoToAddressDb reads
CreatePut(p) ==
    LET pr == procs[p]
    IN  /\ pr.pc = "createPut"
        /\ \E throws \in MayThrow("storeThrows") :
             /\ utxoDb' = IF throws THEN utxoDb
                          ELSE StorePut(utxoDb, Get(pr.utxoId), Get(pr.rec))
             /\ procs' = [procs EXCEPT ![p] =
                   IF throws THEN Thrown(Threw(pr, TRUE, "utxoDb.put"))
                   ELSE [pr EXCEPT !.pc = "addGet"]]
        /\ UNCHANGED <<addressDb, chain, wallet, adapters, calls, now>>

\* addUtxoToAddressDb: addressDb.get 361 answers, the list is built 370-378
AddGet(p) ==
    LET pr == procs[p]
        payerAddress == PayerOf(pr)
        Read(throws) == IF ~throws /\ StoreHas(addressDb, payerAddress)
                        THEN addressDb[payerAddress] ELSE << >>
    IN  /\ pr.pc = "addGet"
        /\ \E throws \in MayThrow("storeThrows") :
             procs' = [procs EXCEPT ![p] =
               [Threw(pr, throws, "addressDb")
                  EXCEPT !.pc = "addPut",
                         !.list = UpsertEntry(Read(throws), Get(pr.rec))]]
        /\ UNCHANGED <<utxoDb, addressDb, chain, wallet, adapters, calls, now>>

\* a faulty AddPut, which lets a failure of addressDb.put end the debit
AddPutPropagates(p) ==
    LET pr == procs[p]
    IN  /\ pr.pc = "addPut"
        /\ \E throws \in MayThrow("storeThrows") :
             /\ addressDb' = IF throws THEN addressDb
                             ELSE StorePut(addressDb, PayerOf(pr), pr.list)
             /\ procs' = [procs EXCEPT ![p] =
                   IF throws THEN Thrown(Threw(pr, TRUE, "addressDb.put"))
                   ELSE ReturnDebit(pr,
                            DebitResult(TRUE, "",
                                Some(Get(pr.rec).remainingBalanceSat), pr.rec))]
        /\ UNCHANGED <<utxoDb, chain, wallet, adapters, calls, now>>

\* addUtxoToAddressDb: addressDb.put 380 takes effect; validateUtxo returns
\* the first debit as valid (290-294)
AddPut(p) ==
    LET pr == procs[p]
    IN  /\ pr.pc = "addPut"
        /\ \E throws \in MayThrow("storeThrows") :
             /\ addressDb' = IF throws THEN addressDb
                             ELSE StorePut(addressDb, PayerOf(pr), pr.list)
             /\ procs' = [procs EXCEPT ![p] =
                   ReturnDebit(Threw(pr, throws, "addressDb.put"),
                       DebitResult(TRUE, "",
                           Some(Get(pr.rec).remainingBalanceSat), pr.rec))]
        /\ UNCHANGED <<utxoDb, chain, wallet, adapters, calls, now>>

\* utxoDb.put(utxoId, updatedRecord) 326 takes effect;
\* updateUtxoInAddressDb reads
UpdatePut(p) ==
    LET pr == procs[p]
    IN  /\ pr.pc = "updatePut"
        /\ \E throws \in MayThrow("storeThrows") :
             /\ utxoDb' = IF throws THEN utxoDb
                          ELSE StorePut(utxoDb, Get(pr.utxoId), Get(pr.rec))
             /\ procs' = [procs EXCEPT ![p] =
                   IF throws
                   THEN Thrown(Threw([pr EXCEPT !.readGone = FALSE],
                                     TRUE, "utxoDb.put"))
                   ELSE [pr EXCEPT !.pc = "updGet", !.selectedUtxo = None,
                                   !.utxoInfo = None, !.readGone = FALSE]]
        /\ UNCHANGED <<addressDb, chain, wallet, adapters, calls, now>>

\* updateUtxoInAddressDb: addressDb.get 395 answers; the entry of the utxoId
\* is replaced and the list put (404-407), or nothing is written
UpdGet(p) ==
    LET pr == procs[p]
        payerAddress == PayerOf(pr)
        Index(throws) ==
            IF ~throws /\ StoreHas(addressDb, payerAddress)
            THEN findIndex(addressDb[payerAddress], Get(pr.rec).utxoId)
            ELSE 0
    IN  /\ pr.pc = "updGet"
        /\ \E throws \in MayThrow("storeThrows") :
             LET index == Index(throws)
             IN  procs' = [procs EXCEPT ![p] =
                   IF index > 0
                   THEN [pr EXCEPT !.pc = "updPut",
                                   !.list = [addressDb[payerAddress]
                                               EXCEPT ![index] = Get(pr.rec)]]
                   ELSE AfterIndexUpdate(Threw(pr, throws, "addressDb"))]
        /\ UNCHANGED <<utxoDb, addressDb, chain, wallet, adapters, calls, now>>

\* updateUtxoInAddressDb: addressDb.put 407 takes effect
UpdPut(p) ==
    LET pr == procs[p]
    IN  /\ pr.pc = "updPut"
        /\ \E throws \in MayThrow("storeThrows") :
             /\ addressDb' = IF throws THEN addressDb
                             ELSE StorePut(addressDb, PayerOf(pr), pr.list)
             /\ procs' = [procs EXCEPT ![p] =
                   AfterIndexUpdate(Threw(pr, throws, "addressDb.put"))]
        /\ UNCHANGED <<utxoDb, chain, wallet, adapters, calls, now>>

\* utxoDb.del(utxoId) 333 takes effect; removeUtxoFromAddressDb reads.
\* The debits of the same utxoId that have read the entry and not yet
\* written their update are marked: the entry they read is gone.
UtxoDel(p) ==
    LET pr == procs[p]
    IN  /\ pr.pc = "utxoDel"
        /\ \E throws \in MayThrow("storeThrows") :
             /\ utxoDb' = IF throws THEN utxoDb
                          ELSE StoreDel(utxoDb, Get(pr.utxoId))
             /\ procs' = [q \in Procs |->
                   IF q = p
                   THEN IF throws THEN Thrown(Threw(pr, TRUE, "utxoDb.del"))
                        ELSE [pr EXCEPT !.pc = "remGet"]
                   ELSE IF /\ ~throws
                           /\ procs[q].pc = "updatePut"
                           /\ procs[q].utxoId = pr.utxoId
                        THEN [procs[q] EXCEPT !.readGone = TRUE]
                        ELSE procs[q]]
        /\ UNCHANGED <<addressDb, chain, wallet, adapters, calls, now>>

\* removeUtxoFromAddressDb: addressDb.get 423 answers, the list is filtered
RemGet(p) ==
    LET pr == procs[p]
        payerAddress == PayerOf(pr)
    IN  /\ pr.pc = "remGet"
        /\ \E throws \in MayThrow("storeThrows") :
             procs' = [procs EXCEPT ![p] =
               IF ~throws /\ StoreHas(addressDb, payerAddress)
               THEN [pr EXCEPT !.pc = "remWrite",
                               !.list = FilterOut(addressDb[payerAddress],
                                                  Get(pr.utxoId))]
               ELSE ReturnUpdated(Threw(pr, throws, "addressDb"))]
        /\ UNCHANGED <<utxoDb, addressDb, chain, wallet, adapters, calls, now>>

\* removeUtxoFromAddressDb: addressDb.del 436 or addressDb.put 439 takes
\* effect; validateUtxo returns the debit as valid (338-342)
RemWrite(p) ==
    LET pr == procs[p]
    IN  /\ pr.pc = "remWrite"
        /\ \E throws \in MayThrow("storeThrows") :
             /\ addressDb' = IF throws THEN addressDb
                             ELSE RemoveWrite(addressDb, PayerOf(pr), pr.list)
             /\ procs' = [procs EXCEPT ![p] =
                   ReturnUpdated(Threw(pr, throws, "addressDb.remove"))]
        /\ UNCHANGED <<utxoDb, chain, wallet, adapters, calls, now>>

---------------------------------------------------------------------------
(* settlePayment after a valid verification *)

\* what wallet.getBalance can answer
Balances == {0, 1, MaxSat}

\* what wallet.send can answer: a txid, no txid, or an exception
SendOutcomes == {"txid123", "", "throws"}

\* a faulty WalletInit, which puts the stores back as they were when the
\* call began if the initialization fails
WalletInitRollsBack(p) ==
    LET pr == procs[p]
    IN  /\ pr.pc = "walletInit"
        /\ \E throws \in MayThrow("walletThrows") :
             /\ wallet' = [wallet EXCEPT !.initialized = @ \/ ~throws,
                                         !.initCalls = @ + 1]
             /\ procs' = [procs EXCEPT ![p] =
                   IF throws THEN SettleThrown(Threw(pr, TRUE, "wallet"))
                   ELSE [pr EXCEPT !.pc = "getBalance"]]
             /\ utxoDb' = IF throws THEN before[1] ELSE utxoDb
             /\ addressDb' = IF throws THEN before[2] ELSE addressDb
        /\ UNCHANGED <<chain, adapters, calls, now>>

\* settlePayment 625-636 after a valid verification.  The wallet is the
\* object this.adapters.bchWallet, whose validateUtxo is the Chain Client:
\* BCHWalletAdapter has no isWalletInitialized, so the call of 631 is a
\* TypeError, caught at 702.  On the other wallet isWalletInitialized()
\* answers or throws; initializeWallet() is called if it answers false.
IsWalletInitialized(p) ==
    LET pr == procs[p]
    IN  /\ pr.pc = "isWalletInitialized"
        /\ IF adapters.chainClient = "walletAdapter"
           THEN procs' = [procs EXCEPT ![p] =
                            SettleThrown(Threw(pr, TRUE, "wallet"))]
           ELSE \E throws \in MayThrow("walletThrows") :
                  procs' = [procs EXCEPT ![p] =
                    IF throws THEN SettleThrown(Threw(pr, TRUE, "wallet"))
                    ELSE IF wallet.initialized
                    THEN [pr EXCEPT !.pc = "getBalance"]
                    ELSE [Calling(pr, "initializeWallet")
                            EXCEPT !.pc = "walletInit"]]
        /\ UNCHANGED <<utxoDb, addressDb, chain, wallet, adapters, calls, now>>

\* initializeWallet() 632 completes; getBalance is asked (635-647)
WalletInit(p) ==
    LET pr == procs[p]
    IN  /\ pr.pc = "walletInit"
        /\ \E throws \in MayThrow("walletThrows") :
             /\ wallet' = [wallet EXCEPT !.initialized = @ \/ ~throws,
                                         !.initCalls = @ + 1]
             /\ procs' = [procs EXCEPT ![p] =
                   IF throws THEN SettleThrown(Threw(pr, TRUE, "wallet"))
                   ELSE [pr EXCEPT !.pc = "getBalance"]]
        /\ UNCHANGED <<utxoDb, addressDb, chain, adapters, calls, now>>

\* parseInt(authorization.value, 10) 627 on an integer number of satoshis
\* below 10^21: the number itself
parseInt10(value) == value

\* a faulty OnBalance, which sends whatever the balance is
OnBalanceUnchecked(pr, facilitatorBalance) ==
    [Calling([pr EXCEPT !.balance = Some(facilitatorBalance)], "send")
       EXCEPT !.pc = "send", !.sends = @ + 1,
              !.outputs = Append(@, << [address |->
                                          ReqOf(pr).paymentRequirements.payTo,
                                        amount |->
                                          parseInt10(AuthOf(pr).value)] >>)]

\* settlePayment 649-667 on the balance: insufficient_funds, or the single
\* output is sent
OnBalance(pr, facilitatorBalance) ==
    LET amount == parseInt10(AuthOf(pr).value)
        payTo == ReqOf(pr).paymentRequirements.payTo
        seen == [pr EXCEPT !.balance = Some(facilitatorBalance)]
    IN  IF facilitatorBalance < amount
        THEN Done(seen, SettleFailure("insufficient_funds",
                                      Get(pr.verification).payer))
        ELSE [Calling(seen, "send")
                EXCEPT !.pc = "send", !.sends = @ + 1,
                       !.outputs = Append(@, << [address |-> payTo,
                                                 amount |-> amount] >>)]

\* wallet.getBalance 647 answers, or it throws, or getWallet or
\* getFacilitatorAddress (635-636) throw before it is called
GetBalance(p) ==
    LET pr == procs[p]
    IN  /\ pr.pc = "getBalance"
        /\ \/ \E facilitatorBalance \in Balances :
                procs' = [procs EXCEPT ![p] =
                            OnBalance(Calling(pr, "getBalance"),
                                      facilitatorBalance)]
           \/ /\ adapters.walletThrows
              /\ \E asked \in BOOLEAN :
                    procs' = [procs EXCEPT ![p] =
                                SettleThrown(Threw(
                                    IF asked THEN Calling(pr, "getBalance")
                                    ELSE pr, TRUE, "wallet"))]
        /\ UNCHANGED <<utxoDb, addressDb, chain, wallet, adapters, calls, now>>

\* a faulty OnSend, which sends a second time when the first send fails
OnSendRetry(pr, txid) ==
    LET sent == [pr EXCEPT !.txid = Some(txid)]
    IN  IF txid \in {"throws", ""}
        THEN IF pr.sends < 2
             THEN [pr EXCEPT !.sends = @ + 1,
                             !.outputs = Append(@, pr.outputs[1])]
             ELSE SettleThrown(sent)
        ELSE Done(sent, SettleSuccess(txid, Get(pr.verification)))

\* a faulty OnSend, which does not look at the txid that send answers
OnSendUnchecked(pr, txid) ==
    LET sent == [pr EXCEPT !.txid = Some(txid)]
    IN  IF txid = "throws"
        THEN SettleThrown(sent)
        ELSE Done(sent, SettleSuccess(txid, Get(pr.verification)))

\* settlePayment 669-712 on the answer of wallet.send
OnSend(pr, txid) ==
    LET sent == [pr EXCEPT !.txid = Some(txid)]
    IN  IF txid = "throws"
        THEN SettleThrown(Threw(sent, TRUE, "wallet"))
        ELSE IF txid = ""
        THEN Done(sent, SettleFailure("invalid_transaction_state",
                                      Get(pr.verification).payer))
        ELSE Done(sent, SettleSuccess(txid, Get(pr.verification)))

\* wallet.send 667 answers; after a txid, getMinConfirmations (680) may
\* throw
Send(p) ==
    LET pr == procs[p]
    IN  /\ pr.pc = "send"
        /\ \/ \E txid \in SendOutcomes :
                procs' = [procs EXCEPT ![p] = OnSend(pr, txid)]
           \/ /\ adapters.walletThrows
              /\ \E txid \in SendOutcomes \ {"", "throws"} :
                    procs' = [procs EXCEPT ![p] =
                                SettleThrown(Threw(
                                    [pr EXCEPT !.txid = Some(txid)],
                                    TRUE, "wallet"))]
        /\ UNCHANGED <<utxoDb, addressDb, chain, wallet, adapters, calls, now>>

---------------------------------------------------------------------------
(* The caller receives the result *)

Return(p) ==
    /\ procs[p].pc = "done"
    /\ procs' = [procs EXCEPT ![p] = IdleProc]
    /\ UNCHANGED <<utxoDb, addressDb, chain, wallet, adapters, calls, now>>

---------------------------------------------------------------------------
(* History *)

\* the step of p puts a record under its utxoId in UtxoDB: the put of 245,
\* 283 or 326 answers and has not thrown
PutsUtxo(p) ==
    /\ procs[p].pc \in {"repairPut", "createPut", "updatePut"}
    /\ procs'[p].pc # procs[p].pc
    /\ "utxoDb.put" \notin procs'[p].threw

\* the step of p makes validateUtxo return isValid true
DebitAccepted(p) ==
    /\ procs[p].pc \in {"addPut", "updGet", "updPut", "remGet", "remWrite"}
    /\ procs'[p].pc \in {"done", "isWalletInitialized"}

\* the payload of the call, with the requirements that price it
PayloadOf(pr) == <<ReqOf(pr).paymentPayload, ReqOf(pr).paymentRequirements>>

\* the completed call was a verifyPayment that named its output and left
\* it with a remaining balance of zero
ExhaustedBy(pr) ==
    /\ ReqOf(pr).kind = "verify"
    /\ Get(pr.result).isValid
    /\ ~IsCheckMyTab(pr)
    /\ Get(pr.result).remainingBalanceSat = Some(0)

\* the lowest remaining balance and the highest total debited stored so far
LowestWith(old, record) ==
    IF IsSome(old)
    THEN Some([remainingBalanceSat |-> Min2(Get(old).remainingBalanceSat,
                                            record.remainingBalanceSat),
               totalDebitedSat |-> Max2(Get(old).totalDebitedSat,
                                        record.totalDebitedSat)])
    ELSE Some([remainingBalanceSat |-> record.remainingBalanceSat,
               totalDebitedSat |-> record.totalDebitedSat])

\* what the step of p adds to the history
Record(p) ==
    LET pr == procs[p]
    IN  /\ lowest' = IF PutsUtxo(p)
                     THEN [lowest EXCEPT ![Get(pr.utxoId)] =
                              LowestWith(@, utxoDb'[Get(pr.utxoId)])]
                     ELSE lowest
        /\ accepted' = IF DebitAccepted(p)
                       THEN [accepted EXCEPT ![Get(pr.utxoId)] = @ + CostOf(pr)]
                       ELSE accepted
        /\ exhausted' = IF pr.pc = "done" /\ ExhaustedBy(pr)
                        THEN exhausted \cup {PayloadOf(pr)}
                        ELSE exhausted
        /\ debitors' = IF DebitAccepted(p)
                       THEN [debitors EXCEPT ![Get(pr.utxoId)] =
                                @ \cup {<<ReqOf(pr).kind, PayloadOf(pr)>>}]
                       ELSE debitors
        /\ before' = IF pr.pc = "done" THEN <<utxoDb, addressDb>> ELSE before

\* the pipeline scenarios keep the snapshot of the stores only
RecordBefore(p) ==
    /\ before' = IF procs[p].pc = "done" THEN <<utxoDb, addressDb>> ELSE before
    /\ UNCHANGED <<accepted, lowest, exhausted, debitors>>

---------------------------------------------------------------------------
(* Specifications *)

\* requests run concurrently, interleaved at their awaits
Next ==
  \E p \in Procs :
    \/ Start(p) /\ UNCHANGED hist
    \/ FindGet(p) /\ UNCHANGED hist
    \/ UtxoGet(p) /\ UNCHANGED hist
    \/ RepairPut(p) /\ UNCHANGED hist
    \/ ChainValidate(p) /\ UNCHANGED hist
    \/ CreatePut(p) /\ UNCHANGED hist
    \/ AddGet(p) /\ UNCHANGED hist
    \/ AddPut(p) /\ UNCHANGED hist
    \/ UpdatePut(p) /\ UNCHANGED hist
    \/ UpdGet(p) /\ UNCHANGED hist
    \/ UpdPut(p) /\ UNCHANGED hist
    \/ UtxoDel(p) /\ UNCHANGED hist
    \/ RemGet(p) /\ UNCHANGED hist
    \/ RemWrite(p) /\ UNCHANGED hist
    \/ IsWalletInitialized(p) /\ UNCHANGED hist
    \/ WalletInit(p) /\ UNCHANGED hist
    \/ GetBalance(p) /\ UNCHANGED hist
    \/ Send(p) /\ UNCHANGED hist
    \/ Return(p) /\ UNCHANGED hist

Spec == InitFunded /\ [][Next]_vars

\* requests run one after the other; the history is recorded
NextSeq ==
  \E p \in Procs :
    \/ StartSeq(p) /\ Record(p)
    \/ FindGet(p) /\ Record(p)
    \/ UtxoGet(p) /\ Record(p)
    \/ RepairPut(p) /\ Record(p)
    \/ ChainValidate(p) /\ Record(p)
    \/ CreatePut(p) /\ Record(p)
    \/ AddGet(p) /\ Record(p)
    \/ AddPut(p) /\ Record(p)
    \/ UpdatePut(p) /\ Record(p)
    \/ UpdGet(p) /\ Record(p)
    \/ UpdPut(p) /\ Record(p)
    \/ UtxoDel(p) /\ Record(p)
    \/ RemGet(p) /\ Record(p)
    \/ RemWrite(p) /\ Record(p)
    \/ IsWalletInitialized(p) /\ Record(p)
    \/ WalletInit(p) /\ Record(p)
    \/ GetBalance(p) /\ Record(p)
    \/ Send(p) /\ Record(p)
    \/ Return(p) /\ Record(p)

SpecSeq == Init /\ [][NextSeq]_vars

\* the pipeline scenarios: one call at a time, collaborators that fail
NextPipeline ==
  \E p \in Procs :
    \/ StartPipeline(p) /\ RecordBefore(p)
    \/ FindGet(p) /\ RecordBefore(p)
    \/ UtxoGet(p) /\ RecordBefore(p)
    \/ RepairPut(p) /\ RecordBefore(p)
    \/ ChainValidate(p) /\ RecordBefore(p)
    \/ CreatePut(p) /\ RecordBefore(p)
    \/ AddGet(p) /\ RecordBefore(p)
    \/ AddPut(p) /\ RecordBefore(p)
    \/ UpdatePut(p) /\ RecordBefore(p)
    \/ UpdGet(p) /\ RecordBefore(p)
    \/ UpdPut(p) /\ RecordBefore(p)
    \/ UtxoDel(p) /\ RecordBefore(p)
    \/ RemGet(p) /\ RecordBefore(p)
    \/ RemWrite(p) /\ RecordBefore(p)
    \/ IsWalletInitialized(p) /\ RecordBefore(p)
    \/ WalletInit(p) /\ RecordBefore(p)
    \/ GetBalance(p) /\ RecordBefore(p)
    \/ Send(p) /\ RecordBefore(p)
    \/ Return(p) /\ RecordBefore(p)

SpecPipeline == InitPipeline /\ [][NextPipeline]_vars

\* validateUtxo called by itself, one call at a time, with stores that may
\* be missing or throw
NextValidate ==
  \E p \in Procs :
    \/ StartValidate(p) /\ RecordBefore(p)
    \/ UtxoGet(p) /\ RecordBefore(p)
    \/ RepairPut(p) /\ RecordBefore(p)
    \/ ChainValidate(p) /\ RecordBefore(p)
    \/ CreatePut(p) /\ RecordBefore(p)
    \/ AddGet(p) /\ RecordBefore(p)
    \/ AddPut(p) /\ RecordBefore(p)
    \/ UpdatePut(p) /\ RecordBefore(p)
    \/ UpdGet(p) /\ RecordBefore(p)
    \/ UpdPut(p) /\ RecordBefore(p)
    \/ UtxoDel(p) /\ RecordBefore(p)
    \/ RemGet(p) /\ RecordBefore(p)
    \/ RemWrite(p) /\ RecordBefore(p)
    \/ Return(p) /\ RecordBefore(p)

SpecValidate == InitValidate /\ [][NextValidate]_vars

\* the selector scenarios: one check-my-tab request, up to its selection
NextSelector ==
  \E p \in Procs :
    \/ StartSelector(p) /\ UNCHANGED hist
    \/ FindGet(p) /\ UNCHANGED hist

SpecSelector == InitSelector /\ [][NextSelector]_vars

\* the network scenarios: requests up to the check of the network
NextNetworks ==
  \E p \in Procs :
    \/ StartNetworks(p) /\ UNCHANGED hist
    \/ Return(p) /\ UNCHANGED hist

SpecNetworks == InitFunded /\ [][NextNetworks]_vars

\* the running tab: verifyPayment calls of both payers, one at a time, with
\* stores and a Chain Client that work
NextTab ==
  \E p \in Procs :
    \/ StartTab(p) /\ Record(p)
    \/ FindGet(p) /\ Record(p)
    \/ UtxoGet(p) /\ Record(p)
    \/ RepairPut(p) /\ Record(p)
    \/ ChainValidate(p) /\ Record(p)
    \/ CreatePut(p) /\ Record(p)
    \/ AddGet(p) /\ Record(p)
    \/ AddPut(p) /\ Record(p)
    \/ UpdatePut(p) /\ Record(p)
    \/ UpdGet(p) /\ Record(p)
    \/ UpdPut(p) /\ Record(p)
    \/ UtxoDel(p) /\ Record(p)
    \/ RemGet(p) /\ Record(p)
    \/ RemWrite(p) /\ Record(p)
    \/ Return(p) /\ Record(p)

SpecTab == InitFunded /\ [][NextTab]_vars

\* verify then settle: a verifyPayment followed by settlePayment calls, one
\* at a time, with stores, a Chain Client and a wallet that work
NextSettle ==
  \E p \in Procs :
    \/ StartSettle(p) /\ Record(p)
    \/ UtxoGet(p) /\ Record(p)
    \/ ChainValidate(p) /\ Record(p)
    \/ CreatePut(p) /\ Record(p)
    \/ AddGet(p) /\ Record(p)
    \/ AddPut(p) /\ Record(p)
    \/ UpdatePut(p) /\ Record(p)
    \/ UpdGet(p) /\ Record(p)
    \/ UpdPut(p) /\ Record(p)
    \/ UtxoDel(p) /\ Record(p)
    \/ RemGet(p) /\ Record(p)
    \/ RemWrite(p) /\ Record(p)
    \/ IsWalletInitialized(p) /\ Record(p)
    \/ WalletInit(p) /\ Record(p)
    \/ GetBalance(p) /\ Record(p)
    \/ Send(p) /\ Record(p)
    \/ Return(p) /\ Record(p)

SpecSettle == InitSettle /\ [][NextSettle]_vars

---------------------------------------------------------------------------
(* Ledger properties *)

\* the process is a verifyPayment call that has returned isValid true
VerifiedValid(pr) ==
    /\ pr.pc = "done"
    /\ ReqOf(pr).kind = "verify"
    /\ Get(pr.result).isValid

\* the utxoId appears in some list of AddressDB
Indexed(utxoId) ==
    \E a \in DOMAIN addressDb : findIndex(addressDb[a], utxoId) > 0

\* p and q are two debits of the same utxoId, both in flight
SameUtxo(p, q) ==
    /\ p # q
    /\ IsSome(procs[p].utxoId)
    /\ procs[p].utxoId = procs[q].utxoId

\* C1: with requests served one after the other, from empty stores and
\* with a chain that always reports the same value for an output, the sum
\* of the costs of the debits accepted against one utxoId never exceeds
\* the value of the output.
AcceptedDebitsWithinValue ==
    \A u \in UtxoRefs :
        IsSome(chain[u]) => accepted[u] <= Get(chain[u]).valueSats

\* C2: no lost update.  Whenever a debit writes its updated record over an
\* entry of UtxoDB, the stored remaining balance decreases by the cost of
\* the call and the stored total debited increases by it: the write
\* builds on whatever the other debits of the utxoId have written.
NoLostUpdate ==
    [][\A p \in Procs :
         LET pr == procs[p]
             u == Get(pr.utxoId)
         IN  (pr.pc = "updatePut" /\ procs'[p].pc = "updGet"
              /\ StoreHas(utxoDb, u))
             => /\ utxoDb'[u].remainingBalanceSat
                     = utxoDb[u].remainingBalanceSat - CostOf(pr)
                /\ utxoDb'[u].totalDebitedSat
                     = utxoDb[u].totalDebitedSat + CostOf(pr)]_vars

\* C3: once verifyPayment calls with a payload that names its output, at a
\* positive cost, have driven the remaining balance of the output to zero,
\* a later verifyPayment call with the same payload returns isValid false
\* with insufficient_utxo_balance.  Stated for an output that no other
\* payload has debited.
ExhaustedPayloadRejected ==
    \A p \in Procs :
        LET pr == procs[p]
        IN  (/\ pr.pc = "done"
             /\ ReqOf(pr).kind = "verify"
             /\ CostOf(pr) > 0
             /\ PayloadOf(pr) \in exhausted
             /\ {d[2] : d \in debitors[Get(pr.utxoId)]}
                  \subseteq {PayloadOf(pr)})
            => /\ ~Get(pr.result).isValid
               /\ Get(pr.result).invalidReason = "insufficient_utxo_balance"

\* C4: every entry of UtxoDB has transactionValueSat = remainingBalanceSat
\* + totalDebitedSat, the three of them non-negative.
EntryBalanced ==
    \A u \in DOMAIN utxoDb :
        /\ utxoDb[u].transactionValueSat
             = utxoDb[u].remainingBalanceSat + utxoDb[u].totalDebitedSat
        /\ utxoDb[u].transactionValueSat >= 0
        /\ utxoDb[u].remainingBalanceSat >= 0
        /\ utxoDb[u].totalDebitedSat >= 0

\* C4 happens: two debits of one entry are in flight together, both have
\* written their updated record, and the entry is stored.
EntryBalancedWitness ==
    \E p, q \in Procs :
        /\ SameUtxo(p, q)
        /\ procs[p].pc \in {"updGet", "updPut"}
        /\ procs[q].pc \in {"updGet", "updPut"}
        /\ StoreHas(utxoDb, Get(procs[p].utxoId))
        /\ utxoDb[Get(procs[p].utxoId)].totalDebitedSat > CostOf(procs[p])

\* C5: when a verifyPayment call has returned isValid true with a remaining
\* balance of zero, its utxoId is in neither store.
ConsumedEntryGone ==
    \A p \in Procs :
        LET pr == procs[p]
        IN  (VerifiedValid(pr) /\ Get(pr.result).remainingBalanceSat = Some(0))
            => /\ ~StoreHas(utxoDb, Get(pr.utxoId))
               /\ ~Indexed(Get(pr.utxoId))

\* C6: the remaining balance stored in UtxoDB is never negative.
RemainingNonNegative ==
    \A u \in DOMAIN utxoDb : utxoDb[u].remainingBalanceSat >= 0

\* C6 happens: two interleaved debits of one utxoId have both written and
\* the stored remaining balance is zero.
RemainingNonNegativeWitness ==
    \E p, q \in Procs :
        /\ SameUtxo(p, q)
        /\ procs[p].pc \in {"updGet", "updPut", "utxoDel"}
        /\ procs[q].pc \in {"updGet", "updPut", "utxoDel"}
        /\ StoreHas(utxoDb, Get(procs[p].utxoId))
        /\ utxoDb[Get(procs[p].utxoId)].remainingBalanceSat = 0

\* C7: the remaining balance stored under a utxoId is not above any
\* remaining balance stored under it before, and the total debited is not
\* below any total debited stored under it before.
RemainingNonIncreasing ==
    \A u \in DOMAIN utxoDb :
        IsSome(lowest[u])
        => /\ utxoDb[u].remainingBalanceSat <= Get(lowest[u]).remainingBalanceSat
           /\ utxoDb[u].totalDebitedSat >= Get(lowest[u]).totalDebitedSat

\* C8: a debit that read the entry of its utxoId before another debit
\* deleted it does not write UtxoDB afterwards.
NoWriteAfterDelete ==
    [][\A p \in Procs :
         (procs[p].pc = "updatePut" /\ procs[p].readGone)
         => procs'[p].pc = "updatePut"]_vars

\* C9: while no request is in flight, every entry of every list of
\* AddressDB has an entry in UtxoDB, with the address as its payer and the
\* same amounts.
IndexMatchesLedger ==
    Quiescent =>
        \A a \in DOMAIN addressDb :
            \A i \in 1 .. Len(addressDb[a]) :
                LET e == addressDb[a][i]
                IN  /\ StoreHas(utxoDb, e.utxoId)
                    /\ utxoDb[e.utxoId].payerAddress = a
                    /\ utxoDb[e.utxoId].transactionValueSat
                         = e.transactionValueSat
                    /\ utxoDb[e.utxoId].remainingBalanceSat
                         = e.remainingBalanceSat
                    /\ utxoDb[e.utxoId].totalDebitedSat = e.totalDebitedSat

\* C10: no address key of AddressDB holds an empty list.
NoEmptyAddressList ==
    \A a \in DOMAIN addressDb : Len(addressDb[a]) > 0

\* C10 happens: a debit has consumed the only entry of its payer, and the
\* key of the payer is gone from AddressDB.
NoEmptyAddressListWitness ==
    \E p \in Procs :
        /\ VerifiedValid(procs[p])
        /\ Get(procs[p].result).remainingBalanceSat = Some(0)
        /\ ~StoreHas(utxoDb, Get(procs[p].utxoId))
        /\ ~StoreHas(addressDb, PayerOf(procs[p]))

\* C11: with the validateUtxo of the wallet adapter as Chain Client, every
\* entry of UtxoDB that a first debit created has the configured server
\* address as its receiverAddress.
CreatedEntryPaysServer ==
    \A p \in Procs :
        (adapters.chainClient = "walletAdapter" /\ procs[p].pc = "addGet")
            \* the first debit has just put its record
            => utxoDb[Get(procs[p].utxoId)].receiverAddress = serverBchAddress

\* the verifyPayment of the call of pr has returned isValid false
VerifiedInvalid(pr) ==
    /\ pr.pc = "done"
    /\ IsSome(pr.verification)
    /\ ~Get(pr.verification).isValid

\* C12: when verifyPayment has returned isValid false and the Ledger Store
\* is one that does not fail, UtxoDB and AddressDB are as the call found
\* them.
RejectedLeavesLedger ==
    \A p \in Procs :
        (VerifiedInvalid(procs[p]) /\ ~adapters.storeThrows)
            => <<utxoDb, addressDb>> = before

\* C12 happens: a debit that the entry of the output cannot cover is
\* rejected while both stores hold the entry, and the stores do not fail.
RejectedLeavesLedgerWitness ==
    \E p \in Procs :
        /\ VerifiedInvalid(procs[p])
        /\ ~adapters.storeThrows
        /\ adapters.levelDB
        /\ Get(procs[p].verification).invalidReason
             = "insufficient_utxo_balance"
        /\ StoreHas(utxoDb, Get(procs[p].utxoId))
        /\ StoreHas(addressDb, PayerOf(procs[p]))

\* the identifiers that normalizeNetwork takes for BCH mainnet: a missing
\* or empty one (line 21), the v1 tag and the CAIP-2 identifier
BchTags == {Undefined, "", "bch", BCH_MAINNET_CAIP2}

\* the steps of verifyPayment that the request of pr fails, whatever the
\* steps before them do.  The network and the scheme of the payload are
\* the ones of its `accepted` field when it carries them (465-466).
NetworkFails(pr) ==
    \/ ReqOf(pr).paymentRequirements.network \notin BchTags
    \/ payloadNetworkOf(ReqOf(pr).paymentPayload) \notin BchTags

SchemeFails(pr) ==
    \/ ReqOf(pr).paymentRequirements.scheme # "utxo"
    \/ payloadSchemeOf(ReqOf(pr).paymentPayload) # "utxo"

ShapeFails(pr) ==
    LET payload == ReqOf(pr).paymentPayload.payload
    IN  \/ payload = None
        \/ Get(payload).authorization = None
        \/ Get(payload).signature = ""

SignatureFails(pr) == ReqOf(pr).verifyMessage \in {"false", "throws"}

\* the selection of findUtxoByAddress fails: there is no AddressDB, its
\* get has thrown (111), or the list of the payer, as the call found it,
\* holds no entry that pays payTo and covers the cost
SelectionFails(pr) ==
    /\ AuthOf(pr).txid = "*"
    /\ \/ ~adapters.levelDB
       \/ pr.utxoId = None /\ "addressDb" \in pr.threw
       \/ LET list == IF StoreHas(before[2], AuthOf(pr).from)
                      THEN before[2][AuthOf(pr).from] ELSE << >>
          IN  \A i \in 1 .. Len(list) :
                  \/ list[i].receiverAddress
                       # ReqOf(pr).paymentRequirements.payTo
                  \/ list[i].remainingBalanceSat < CostOf(pr)

\* the invalidReason of each step before the debit
StepReasons ==
    <<"invalid_network", "invalid_scheme", "invalid_payload",
      "invalid_exact_bch_payload_signature", "no_utxo_found_for_address">>

\* the first step of verifyPayment that the request of pr fails: 1 to 5 for
\* network, scheme, shape of the payload, signature and selection, 6 when
\* only the debit is left to fail
FirstFailing(pr) ==
    IF NetworkFails(pr) THEN 1
    ELSE IF SchemeFails(pr) THEN 2
    ELSE IF ShapeFails(pr) THEN 3
    ELSE IF SignatureFails(pr) THEN 4
    ELSE IF SelectionFails(pr) THEN 5
    ELSE 6

\* C13: verifyPayment returns the invalidReason of the first step that
\* fails, in the order network, scheme, shape of the payload, signature,
\* selection of the output, debit; the reasons of the steps before the
\* debit are returned by no later step.
EarliestFailureReported ==
    \A p \in Procs :
        LET pr == procs[p]
            v == Get(pr.verification)
            Reasons == {StepReasons[i] : i \in 1 .. 5}
        IN  (pr.pc = "done" /\ IsSome(pr.verification))
            => IF FirstFailing(pr) < 6
               THEN /\ ~v.isValid
                    /\ v.invalidReason = StepReasons[FirstFailing(pr)]
               ELSE \/ v.isValid
                    \/ v.invalidReason \notin Reasons

\* C13 happens: a request that fails the steps of the network, the
\* scheme, the shape of the payload and the signature at once has returned.
EarliestFailureReportedWitness ==
    \E p \in Procs :
        /\ VerifiedInvalid(procs[p])
        /\ NetworkFails(procs[p])
        /\ SchemeFails(procs[p])
        /\ ShapeFails(procs[p])
        /\ SignatureFails(procs[p])

\* C14: a verifyPayment that fails with invalid_network, invalid_scheme or
\* invalid_payload has called neither the Signature Verifier nor the Chain
\* Client nor a store; one that fails with
\* invalid_exact_bch_payload_signature has called neither the Chain Client
\* nor a store.
EarlyFailureCallsNothing ==
    \A p \in Procs :
        LET pr == procs[p]
            reason == Get(pr.verification).invalidReason
        IN  VerifiedInvalid(pr) =>
              /\ reason \in {"invalid_network", "invalid_scheme",
                             "invalid_payload"}
                    => pr.called \cap {"verifier", "chain", "store"} = {}
              /\ reason = "invalid_exact_bch_payload_signature"
                    => pr.called \cap {"chain", "store"} = {}

\* C14 happens: a request whose signature the Signature Verifier refuses
\* has returned, after the call of the Signature Verifier and of nothing
\* else, while the stores hold an entry.
EarlyFailureCallsNothingWitness ==
    \E p \in Procs :
        /\ VerifiedInvalid(procs[p])
        /\ Get(procs[p].verification).invalidReason
             = "invalid_exact_bch_payload_signature"
        /\ procs[p].called = {"verifier"}
        /\ DOMAIN utxoDb # {}

\* settlePayment has returned to the caller of pr
Settled(pr) == pr.pc = "done" /\ ReqOf(pr).kind = "settle"

\* C15: a SettleResult with success true carries a transaction that is not
\* empty and is the txid that wallet.send answered.
SuccessHasTransaction ==
    \A p \in Procs :
        (Settled(procs[p]) /\ Get(procs[p].result).success)
            => /\ Get(procs[p].result).transaction # ""
               /\ procs[p].txid = Some(Get(procs[p].result).transaction)
               /\ Get(procs[p].txid) # "throws"

\* C15 happens: a settlePayment has returned success true.
SuccessHasTransactionWitness ==
    \E p \in Procs :
        /\ Settled(procs[p])
        /\ Get(procs[p].result).success
        /\ Get(procs[p].result).transaction = "txid123"

\* C16: when the verification inside settlePayment is invalid, the
\* SettleResult has success false, the invalidReason of the verification as
\* errorReason and transaction "", and neither getBalance nor send of the
\* wallet has been called.
InvalidVerificationNotSettled ==
    \A p \in Procs :
        LET pr == procs[p]
        IN  (Settled(pr) /\ VerifiedInvalid(pr))
            => /\ ~Get(pr.result).success
               /\ Get(pr.result).errorReason
                    = Get(pr.verification).invalidReason
               /\ Get(pr.result).transaction = ""
               /\ pr.called \cap {"getBalance", "send"} = {}
               /\ pr.sends = 0

\* C16 happens: a settlePayment whose verification the ledger rejected has
\* returned.
InvalidVerificationNotSettledWitness ==
    \E p \in Procs :
        /\ Settled(procs[p])
        /\ VerifiedInvalid(procs[p])
        /\ Get(procs[p].verification).invalidReason
             = "insufficient_utxo_balance"

\* C17: a settlePayment calls wallet.send at most once; when it returns
\* success true it has called send once, with the single output that pays
\* authorization.value to payTo; when send throws or answers no txid the
\* call returns a failure and has sent once.
SendAtMostOnce ==
    \A p \in Procs :
        LET pr == procs[p]
        IN  /\ pr.sends <= 1
            /\ Len(pr.outputs) = pr.sends
            /\ (Settled(pr) /\ Get(pr.result).success)
                 => /\ pr.sends = 1
                    /\ pr.outputs[1] =
                         << [address |->
                               ReqOf(pr).paymentRequirements.payTo,
                             amount |-> AuthOf(pr).value] >>
            /\ (pr.sends = 1 /\ pr.txid \in {Some(""), Some("throws")})
                 => /\ Settled(pr)
                    /\ ~Get(pr.result).success

\* C17 happens: a settlePayment has returned a failure after a send that
\* threw, for a payload whose authorization.value is not the cost.
SendAtMostOnceWitness ==
    \E p \in Procs :
        /\ Settled(procs[p])
        /\ procs[p].txid = Some("throws")
        /\ procs[p].sends = 1
        /\ ~Get(procs[p].result).success
        /\ AuthOf(procs[p]).value # CostOf(procs[p])

\* C18: when the verification is valid and the balance of the wallet of
\* the facilitator is below authorization.value, settlePayment returns
\* success false with errorReason insufficient_funds and transaction "",
\* and has not called send.
LowBalanceNotSent ==
    \A p \in Procs :
        LET pr == procs[p]
        IN  (IsSome(pr.balance) /\ Get(pr.balance) < AuthOf(pr).value)
            => /\ Settled(pr)
               /\ Get(pr.verification).isValid
               /\ ~Get(pr.result).success
               /\ Get(pr.result).errorReason = "insufficient_funds"
               /\ Get(pr.result).transaction = ""
               /\ "send" \notin pr.called
               /\ pr.sends = 0

\* C18 happens: getBalance has answered one satoshi less than
\* authorization.value, and settlePayment has returned.
LowBalanceNotSentWitness ==
    \E p \in Procs :
        /\ Settled(procs[p])
        /\ IsSome(procs[p].balance)
        /\ Get(procs[p].balance) > 0
        /\ Get(procs[p].balance) + 1 = AuthOf(procs[p]).value

\* C19: every SettleResult has the CAIP-2 identifier of BCH mainnet as its
\* network, whatever the networks of the payload and of the requirements.
SettleNetworkCanonical ==
    \A p \in Procs :
        Settled(procs[p])
            => Get(procs[p].result).network = BCH_MAINNET_CAIP2

\* C19 happens: a settlePayment whose payload carries a foreign network
\* and whose requirements carry the tag "bch" has returned a failure.
SettleNetworkCanonicalWitness ==
    \E p \in Procs :
        /\ Settled(procs[p])
        /\ ~Get(procs[p].result).success
        /\ payloadNetworkOf(ReqOf(procs[p]).paymentPayload) \notin BchTags
        /\ ReqOf(procs[p]).paymentRequirements.network = "bch"

\* the call of pr has returned a result with isValid / success false
ReturnedFailure(pr) ==
    /\ pr.pc = "done"
    /\ IsSome(pr.result)
    /\ IF ReqOf(pr).kind = "verify" THEN ~Get(pr.result).isValid
       ELSE ~Get(pr.result).success

\* the calls whose exception ends the request: every call but the get of
\* UtxoDB, which is read as "no entry", and the calls of AddressDB made to
\* maintain the index, which are swallowed
FatalThrows == {"verifier", "chain", "wallet", "utxoDb.put", "utxoDb.del"}

\* C20 as stated: whenever the Signature Verifier, the Chain Client, a
\* store or the wallet has thrown, or the stores are not initialized, the
\* call returns a result with isValid / success false.
EveryThrowFails ==
    \A p \in Procs :
        (procs[p].pc = "done"
            /\ (procs[p].threw # {} \/ ~adapters.levelDB))
            => ReturnedFailure(procs[p])

\* C20 amended: every call returns a result, whatever has thrown; the
\* result has isValid / success false when the Signature Verifier, the
\* Chain Client, the wallet, or a put or del of UtxoDB has thrown, or the
\* stores are not initialized.
ErrorsAreValues ==
    \A p \in Procs :
        procs[p].pc = "done"
            => /\ IsSome(procs[p].result)
               /\ (procs[p].threw \cap FatalThrows # {}
                      \/ ~adapters.levelDB)
                    => ReturnedFailure(procs[p])

\* C20 happens: a settlePayment has returned in which a read of AddressDB
\* threw and then the del of UtxoDB threw.
ErrorsAreValuesWitness ==
    \E p \in Procs :
        /\ Settled(procs[p])
        /\ "utxoDb.del" \in procs[p].threw
        /\ "addressDb" \in procs[p].threw

\* the reasons that verifyPayment and settlePayment are to answer with
ClosedReasons ==
    {"missing_authorization", "invalid_network", "invalid_scheme",
     "invalid_payload", "invalid_exact_bch_payload_signature",
     "no_utxo_found_for_address", "utxo_not_found",
     "invalid_receiver_address", "insufficient_utxo_balance",
     "insufficient_funds", "invalid_transaction_state", "invalid_payment",
     "invalid_utxo", "unexpected_utxo_validation_error",
     "unexpected_verify_error", "unexpected_settle_error"}

\* C21: every invalidReason that verifyPayment returns and every
\* errorReason that settlePayment returns is one of the closed set of
\* reasons, also when the Chain Client of the wallet adapter fails with an
\* exception.
ReasonsClosed ==
    \A p \in Procs :
        LET pr == procs[p]
        IN  /\ VerifiedInvalid(pr)
                 => Get(pr.verification).invalidReason \in ClosedReasons
            /\ (Settled(pr) /\ ~Get(pr.result).success)
                 => Get(pr.result).errorReason \in ClosedReasons

\* the list of the payer of pr in AddressDB, empty when there is none
ListOf(pr) ==
    IF StoreHas(addressDb, AuthOf(pr).from)
    THEN addressDb[AuthOf(pr).from] ELSE << >>

\* the places of the list of the payer whose entry pays payTo and covers
\* the cost
UsablePlaces(pr) ==
    { i \in 1 .. Len(ListOf(pr)) :
        /\ ListOf(pr)[i].receiverAddress
             = ReqOf(pr).paymentRequirements.payTo
        /\ ListOf(pr)[i].remainingBalanceSat >= CostOf(pr) }

\* C22: findUtxoByAddress returns an entry of the list of the payer that
\* pays payTo and covers the cost, and no such entry was first seen before
\* it (a missing firstSeen counts as the epoch); it returns null exactly
\* when the list has no such entry, or the address is absent, or AddressDB
\* cannot be read.
SelectsOldestUsable ==
    \A p \in Procs :
        LET pr == procs[p]
        IN  /\ (pr.pc = "utxoGet" /\ IsCheckMyTab(pr))
                 => \E i \in UsablePlaces(pr) :
                      /\ pr.selectedUtxo = Some(ListOf(pr)[i])
                      /\ \A j \in UsablePlaces(pr) :
                            timeOf(ListOf(pr)[i].firstSeen)
                              <= timeOf(ListOf(pr)[j].firstSeen)
            /\ (pr.pc = "done" /\ IsCheckMyTab(pr))
                 => \/ UsablePlaces(pr) = {}
                    \/ "addressDb" \in pr.threw
                    \/ ~adapters.levelDB

\* C22 happens: the entry selected is the second of the list and has no
\* firstSeen; the first of the list is usable too and was seen later.
SelectsOldestUsableWitness ==
    \E p \in Procs :
        /\ procs[p].pc = "utxoGet"
        /\ IsCheckMyTab(procs[p])
        /\ UsablePlaces(procs[p]) = {1, 2}
        /\ procs[p].selectedUtxo = Some(ListOf(procs[p])[2])
        /\ ListOf(procs[p])[2].firstSeen = NoTime
        /\ ListOf(procs[p])[1].firstSeen = 1

\* verifyPayment has let the networks of the request of pr pass
NetworksPassed(pr) ==
    /\ pr.pc # "idle"
    /\ ~(VerifiedInvalid(pr)
          /\ Get(pr.verification).invalidReason = "invalid_network")

\* C23: networksMatch(a, b) is true exactly when a and b both normalize to
\* the CAIP-2 identifier of BCH mainnet; it is symmetric; two equal
\* identifiers of another network do not match.
NetworksMatchNativeOnly ==
    \A p \in Procs :
        procs[p].pc # "idle" =>
            LET a == ReqOf(procs[p]).paymentRequirements.network
                b == ReqOf(procs[p]).paymentPayload.network
            IN  /\ NetworksPassed(procs[p])
                     <=> /\ normalizeNetwork(a) = BCH_MAINNET_CAIP2
                         /\ normalizeNetwork(b) = BCH_MAINNET_CAIP2
                /\ networksMatch(a, b) <=> networksMatch(b, a)
                /\ (a = b /\ a \notin {Undefined, "", "bch",
                                        BCH_MAINNET_CAIP2})
                     => ~NetworksPassed(procs[p])

\* C23 happens: a request whose payload and requirements both name the
\* same other bip122 network has been refused with invalid_network.
NetworksMatchNativeOnlyWitness ==
    \E p \in Procs :
        /\ VerifiedInvalid(procs[p])
        /\ Get(procs[p].verification).invalidReason = "invalid_network"
        /\ ReqOf(procs[p]).paymentRequirements.network
             = "bip122:000000000019d6689c085ae165831e93"
        /\ ReqOf(procs[p]).paymentPayload.network
             = "bip122:000000000019d6689c085ae165831e93"

\* C24: with the validateUtxo of the wallet adapter as Chain Client, when
\* UtxoDB holds an entry that a verifyPayment of payer A created and whose
\* remaining balance covers the cost, a check-my-tab verifyPayment of A
\* with the server address as payTo returns isValid true.
RunningTabServed ==
    \A p \in Procs :
        LET pr == procs[p]
        IN  (/\ pr.pc = "done"
             /\ ReqOf(pr).kind = "verify"
             /\ IsCheckMyTab(pr)
             /\ adapters.chainClient = "walletAdapter"
             /\ ReqOf(pr).paymentRequirements.payTo = serverBchAddress
             /\ \E u \in DOMAIN before[1] :
                   /\ before[1][u].payerAddress = PayerOf(pr)
                   /\ before[1][u].remainingBalanceSat >= CostOf(pr))
            => Get(pr.result).isValid

\* the call of pr is a verifyPayment that returned isValid true after a
\* debit of an entry that UtxoDB held when the call began
DebitedExisting(pr) ==
    /\ VerifiedValid(pr)
    /\ IsSome(pr.utxoId)
    /\ StoreHas(before[1], Get(pr.utxoId))

\* C25: when calls run one at a time, a debit of an existing entry that
\* returns valid with remainingBalanceSat 0 has deleted UtxoDB[utxoId] and
\* has taken the record out of AddressDB[authorization.from]: the list of
\* the payer is the list it had without the utxoId, and the key of the
\* payer is gone when nothing is left.
ConsumedEntryDeleted ==
    \A p \in Procs :
        LET pr == procs[p]
            payerAddress == PayerOf(pr)
            left == IF StoreHas(before[2], payerAddress)
                    THEN FilterOut(before[2][payerAddress], Get(pr.utxoId))
                    ELSE << >>
        IN  (/\ DebitedExisting(pr)
             /\ Get(pr.result).remainingBalanceSat = Some(0))
            => /\ ~StoreHas(utxoDb, Get(pr.utxoId))
               /\ IF Len(left) = 0
                  THEN ~StoreHas(addressDb, payerAddress)
                  ELSE /\ StoreHas(addressDb, payerAddress)
                       /\ addressDb[payerAddress] = left

\* C25 happens: a debit has consumed an existing entry of a payer who has
\* another entry, and the list of the payer keeps the other entry.
ConsumedEntryDeletedWitness ==
    \E p \in Procs :
        /\ DebitedExisting(procs[p])
        /\ Get(procs[p].result).remainingBalanceSat = Some(0)
        /\ ~StoreHas(utxoDb, Get(procs[p].utxoId))
        /\ StoreHas(addressDb, PayerOf(procs[p]))
        /\ findIndex(before[2][PayerOf(procs[p])], Get(procs[p].utxoId)) > 0

\* the call of pr is a verifyPayment that returned isValid true after the
\* first debit of a utxoId that UtxoDB did not hold when the call began
DebitedFirst(pr) ==
    /\ VerifiedValid(pr)
    /\ ~IsCheckMyTab(pr)
    /\ ~StoreHas(before[1], Get(pr.utxoId))

\* C26: when calls run one at a time, a first debit of cost c of an output
\* of value V that returns valid has written to UtxoDB[utxoId] an entry
\* with transactionValueSat V, remainingBalanceSat V - c, totalDebitedSat c
\* and the payer of the call as payerAddress, the list of the payer in
\* AddressDB holds that entry, and the returned entry and remaining
\* balance carry the same amounts as UtxoDB[utxoId].
FirstDebitStored ==
    \A p \in Procs :
        LET pr == procs[p]
            utxoId == Get(pr.utxoId)
            V == Get(chain[utxoId]).valueSats
            c == CostOf(pr)
            result == Get(pr.result)
        IN  DebitedFirst(pr)
            => /\ StoreHas(utxoDb, utxoId)
               /\ utxoDb[utxoId].utxoId = utxoId
               /\ utxoDb[utxoId].transactionValueSat = V
               /\ utxoDb[utxoId].remainingBalanceSat = V - c
               /\ utxoDb[utxoId].totalDebitedSat = c
               /\ utxoDb[utxoId].payerAddress = PayerOf(pr)
               /\ StoreHas(addressDb, PayerOf(pr))
               /\ \E i \in 1 .. Len(addressDb[PayerOf(pr)]) :
                     addressDb[PayerOf(pr)][i] = utxoDb[utxoId]
               /\ result.remainingBalanceSat
                    = Some(utxoDb[utxoId].remainingBalanceSat)
               /\ IsSome(result.ledgerEntry)
               /\ Get(result.ledgerEntry).utxoId = utxoId
               /\ Get(result.ledgerEntry).transactionValueSat
                    = utxoDb[utxoId].transactionValueSat
               /\ Get(result.ledgerEntry).totalDebitedSat
                    = utxoDb[utxoId].totalDebitedSat

\* C26 happens: a first debit of a positive cost below the value of the
\* output has returned valid.
FirstDebitStoredWitness ==
    \E p \in Procs :
        /\ DebitedFirst(procs[p])
        /\ CostOf(procs[p]) > 0
        /\ Get(procs[p].result).remainingBalanceSat = Some(1)
        /\ StoreHas(utxoDb, Get(procs[p].utxoId))

\* the fields of an entry that a debit leaves as they are
Identity(e) ==
    [utxoId |-> e.utxoId, txid |-> e.txid, vout |-> e.vout,
     payerAddress |-> e.payerAddress, receiverAddress |-> e.receiverAddress,
     transactionValueSat |-> e.transactionValueSat, firstSeen |-> e.firstSeen]

\* the put of the updated record by the call of p (validateUtxo 326) has
\* taken effect in this step
UpdatePutDone(p) ==
    /\ procs[p].pc = "updatePut"
    /\ procs'[p].pc = "updGet"

\* C27: when calls run one at a time, the put of a debit of an existing
\* entry leaves utxoId, txid, vout, payerAddress, receiverAddress,
\* transactionValueSat and firstSeen of the entry as they were, and leaves
\* the entries of all other utxoIds in UtxoDB as they were.
DebitKeepsIdentity ==
    [][\A p \in Procs :
          UpdatePutDone(p)
          => LET utxoId == Get(procs[p].utxoId)
             IN  /\ StoreHas(utxoDb, utxoId)
                 /\ DOMAIN utxoDb' = DOMAIN utxoDb
                 /\ Identity(utxoDb'[utxoId]) = Identity(utxoDb[utxoId])
                 /\ \A u \in DOMAIN utxoDb \ {utxoId} :
                       utxoDb'[u] = utxoDb[u]]_vars

\* C27 happens: payer B has debited the entry that payer A created at an
\* earlier time, another entry is in UtxoDB, and the put has taken effect.
DebitKeepsIdentityWitness ==
    \E p \in Procs :
        /\ procs[p].pc = "updGet"
        /\ StoreHas(utxoDb, Get(procs[p].utxoId))
        /\ utxoDb[Get(procs[p].utxoId)].payerAddress # PayerOf(procs[p])
        /\ utxoDb[Get(procs[p].utxoId)].firstSeen
             < utxoDb[Get(procs[p].utxoId)].lastUpdated
        /\ DOMAIN utxoDb # {Get(procs[p].utxoId)}

\* the calls made so far are two verifyPayment calls of payer a, each the
\* debit of a txid and vout of its own, that both returned isValid true
TwoFirstDebitsBy(a) ==
    /\ calls = 2
    /\ \A p \in Procs :
          /\ VerifiedValid(procs[p])
          /\ ~IsCheckMyTab(procs[p])
          /\ PayerOf(procs[p]) = a
    /\ procs["p1"].utxoId # procs["p2"].utxoId

\* C28: after two first debits of different utxoIds by the same payer,
\* however their steps interleave, once nothing is in flight every entry
\* of UtxoDB with the payer as payerAddress is in the list of the payer in
\* AddressDB.
ConcurrentFirstDebitsIndexed ==
    \A a \in Payers :
        TwoFirstDebitsBy(a)    \* both have returned: nothing is in flight
        => \A u \in DOMAIN utxoDb :
              utxoDb[u].payerAddress = a
              => /\ StoreHas(addressDb, a)
                 /\ findIndex(addressDb[a], u) > 0

\* the write of AddressDB that the call of p was about to make at the
\* position pc has been made in this step: it has answered and has not
\* thrown
IndexWriteDone(p, pc) ==
    /\ procs[p].pc = pc
    /\ procs'[p].pc # pc
    /\ (IF pc = "remWrite" THEN "addressDb.remove" ELSE "addressDb.put")
         \notin procs'[p].threw

\* C29: when calls run one at a time, every write of AddressDB by a debit
\* comes after the write of UtxoDB it belongs to: when the list is put by
\* addUtxoToAddressDb or updateUtxoInAddressDb, UtxoDB[utxoId] already
\* holds the record of the debit; when removeUtxoFromAddressDb writes,
\* UtxoDB[utxoId] is already deleted; and nothing else writes AddressDB.
IndexWrittenAfterEntry ==
    [][/\ \A p \in Procs :
            LET pr == procs[p]
            IN  /\ (IndexWriteDone(p, "addPut") \/ IndexWriteDone(p, "updPut"))
                   => /\ StoreHas(utxoDb, Get(pr.utxoId))
                      /\ utxoDb[Get(pr.utxoId)] = Get(pr.rec)
                /\ IndexWriteDone(p, "remWrite")
                   => ~StoreHas(utxoDb, Get(pr.utxoId))
       /\ addressDb' # addressDb
          => \E p \in Procs :
                \E pc \in {"addPut", "updPut", "remWrite"} :
                    IndexWriteDone(p, pc)]_vars

\* C29 happens: a debit has consumed an entry and deleted it from UtxoDB,
\* and is about to take it out of the list of its payer, which still
\* holds it.
IndexWrittenAfterEntryWitness ==
    \E p \in Procs :
        /\ procs[p].pc = "remWrite"
        /\ ~StoreHas(utxoDb, Get(procs[p].utxoId))
        /\ StoreHas(addressDb, PayerOf(procs[p]))
        /\ findIndex(addressDb[PayerOf(procs[p])], Get(procs[p].utxoId)) > 0

\* the call of pr has returned, and the only operations that failed in it
\* are operations of AddressDB made by addUtxoToAddressDb,
\* updateUtxoInAddressDb or removeUtxoFromAddressDb (a call whose read of
\* AddressDB in findUtxoByAddress fails has no utxoId)
IndexFailedOnly(pr) ==
    /\ pr.pc = "done"
    /\ IsSome(pr.utxoId)
    /\ pr.threw # {}
    /\ pr.threw \subseteq {"addressDb", "addressDb.put", "addressDb.remove"}

\* the entry that the debit of the call of pr finds: the entry of UtxoDB,
\* or the entry that check-my-tab selected from the list of the payer and
\* put back into UtxoDB (241-245), or none
EntryOfDebit(pr) ==
    LET utxoId == Get(pr.utxoId)
    IN  IF StoreHas(before[1], utxoId) THEN Some(before[1][utxoId])
        ELSE IF IsCheckMyTab(pr)
        THEN findUtxoByAddress(before[2][PayerOf(pr)],
                               ReqOf(pr).paymentRequirements.payTo,
                               CostOf(pr))
        ELSE None

\* the record that the debit of the call of pr writes when every operation
\* succeeds: the update of the entry it finds, or the record of a first
\* debit, stamped with the reading of the clock that the call made
RecordOfDebit(pr) ==
    LET utxoId == Get(pr.utxoId)
    IN  IF IsSome(EntryOfDebit(pr))
        THEN UpdatedRecord(Get(EntryOfDebit(pr)), CostOf(pr), now)
        ELSE NewRecord(utxoId[1], utxoId[2], PayerOf(pr),
                       ChainAnswer(Get(chain[utxoId])), CostOf(pr), now)

\* UtxoDB after the debit of the call of pr when every operation succeeds
UtxoDbAfterDebit(pr) ==
    LET utxoId == Get(pr.utxoId)
    IN  IF /\ IsSome(EntryOfDebit(pr))
           /\ RecordOfDebit(pr).remainingBalanceSat = 0
        THEN StoreDel(before[1], utxoId)
        ELSE StorePut(before[1], utxoId, RecordOfDebit(pr))

\* C30: when calls run one at a time, a debit in which a get, put or del of
\* AddressDB failed during the upsert, the update or the removal returns
\* the result that it returns when the operation succeeds, isValid true
\* with the remaining balance of the record, and leaves UtxoDB as it
\* leaves it when the operation succeeds.
IndexFailureSwallowed ==
    \A p \in Procs :
        LET pr == procs[p]
        IN  IndexFailedOnly(pr)
            => /\ IsSome(pr.verification)
               /\ Get(pr.verification).isValid
               /\ Get(pr.verification).remainingBalanceSat
                    = Some(RecordOfDebit(pr).remainingBalanceSat)
               /\ utxoDb = UtxoDbAfterDebit(pr)

\* C30 happens: a debit has consumed an entry and deleted it from UtxoDB,
\* the removal from the list of the payer has failed, and the call has
\* returned isValid true.
IndexFailureSwallowedWitness ==
    \E p \in Procs :
        /\ IndexFailedOnly(procs[p])
        /\ Get(procs[p].verification).isValid
        /\ ~StoreHas(utxoDb, Get(procs[p].utxoId))
        /\ StoreHas(addressDb, PayerOf(procs[p]))
        /\ findIndex(addressDb[PayerOf(procs[p])], Get(procs[p].utxoId)) > 0

\* the call of pr is in flight or has returned, and it is a check-my-tab
\* call: its payload carries an authorization (179) whose txid is "*"
\* (195-196, 506); nothing else of the payload is read
TabCall(pr) ==
    /\ IsSome(pr.req)
    /\ IsSome(ReqOf(pr).paymentPayload.payload)
    /\ IsSome(Get(ReqOf(pr).paymentPayload.payload).authorization)
    /\ IsCheckMyTab(pr)

\* the verification of pr has reached the selection of findUtxoByAddress
\* (533-549): the checks before it passed and the call is a check-my-tab
\* one (533); the selection has given no entry
NothingSelected(pr) ==
    /\ IsSome(pr.verification)
    /\ ~IsSome(pr.utxoId)
    /\ ~NetworkFails(pr)
    /\ ~SchemeFails(pr)
    /\ ~ShapeFails(pr)
    /\ ~SignatureFails(pr)
    /\ IsCheckMyTab(pr)

\* C31: a check-my-tab call never calls the Chain Client.  When the entry
\* it selected is not in UtxoDB (or the get of UtxoDB fails), the selected
\* entry is put into UtxoDB[utxoId] and debited as an existing entry: at
\* the put of the update UtxoDB holds the selected entry, and a call that
\* found no entry in UtxoDB and in which nothing failed returns valid with
\* the balance and the UtxoDB of that debit.  When the selection is
\* reached and no entry is selected the result is
\* no_utxo_found_for_address.
CheckMyTabOffChain ==
    \A p \in Procs :
        LET pr == procs[p]
        IN  TabCall(pr)
            => /\ "chain" \notin pr.called
               /\ pr.pc # "chainValidate"
               /\ (pr.pc = "updatePut" /\ ReqOf(pr).kind # "validateUtxo")
                  => /\ pr.utxoInfo = EntryOfDebit(pr)
                        \/ "utxoDb.get" \in pr.threw
                     /\ StoreHas(utxoDb, Get(pr.utxoId))
                     /\ utxoDb[Get(pr.utxoId)] = Get(pr.utxoInfo)
               /\ (/\ pr.pc = "done" /\ IsSome(pr.utxoId) /\ pr.threw = {}
                   /\ IsSome(pr.verification)
                   /\ ~StoreHas(before[1], Get(pr.utxoId)))
                  => /\ Get(pr.verification).isValid
                     /\ Get(pr.verification).remainingBalanceSat
                          = Some(RecordOfDebit(pr).remainingBalanceSat)
                     /\ utxoDb = UtxoDbAfterDebit(pr)
               /\ NothingSelected(pr)
                  => /\ ~Get(pr.verification).isValid
                     /\ Get(pr.verification).invalidReason
                          = "no_utxo_found_for_address"

\* C31 happens: a check-my-tab call has selected an entry that UtxoDB did
\* not hold, has put it into UtxoDB and is about to put its update.
CheckMyTabOffChainWitness ==
    \E p \in Procs :
        /\ TabCall(procs[p])
        /\ procs[p].pc = "updatePut"
        /\ ~StoreHas(before[1], Get(procs[p].utxoId))
        /\ procs[p].threw = {}
        /\ utxoDb[Get(procs[p].utxoId)] = Get(procs[p].utxoInfo)

\* C32: however settlePayment calls overlap, initializeWallet is invoked
\* at most once: at most one invocation has answered, and no invocation is
\* pending once one has answered or while another is pending.
WalletInitializedOnce ==
    /\ wallet.initCalls <= 1
    /\ Cardinality({p \in Procs : procs[p].pc = "walletInit"})
         + wallet.initCalls <= 1

\* AddressDB after the debit of the call of pr when every operation
\* succeeds: the record is upserted into the list of the payer by a first
\* debit (357-385); it replaces the entry of the utxoId in that list, if
\* there is one, by a debit of an existing entry (391-413), and is taken
\* out of the list when nothing remains (419-445)
AddressDbAfterDebit(pr) ==
    LET utxoId == Get(pr.utxoId)
        payerAddress == PayerOf(pr)
        utxoRecord == RecordOfDebit(pr)
        addressUtxos == IF StoreHas(before[2], payerAddress)
                        THEN before[2][payerAddress] ELSE << >>
        index == findIndex(addressUtxos, utxoId)
        updated == IF index > 0
                   THEN StorePut(before[2], payerAddress,
                                 [addressUtxos EXCEPT ![index] = utxoRecord])
                   ELSE before[2]
    IN  IF ~IsSome(EntryOfDebit(pr))
        THEN StorePut(before[2], payerAddress,
                      UpsertEntry(addressUtxos, utxoRecord))
        ELSE IF /\ utxoRecord.remainingBalanceSat = 0
                /\ StoreHas(updated, payerAddress)
        THEN RemoveWrite(updated, payerAddress,
                         FilterOut(updated[payerAddress], utxoId))
        ELSE updated

\* settlePayment has returned success false to the caller of pr after a
\* verification that was valid, and no operation of a store failed
SettleFailedAfterDebit(pr) ==
    /\ Settled(pr)
    /\ IsSome(pr.verification)
    /\ Get(pr.verification).isValid
    /\ ~Get(pr.result).success
    /\ pr.threw \subseteq {"wallet"}

\* C33: when the verification of a settlePayment call is valid and the
\* settlement fails, the errorReason is insufficient_funds,
\* invalid_transaction_state or unexpected_settle_error, and UtxoDB and
\* AddressDB are as the debit of the verification left them: the debit is
\* not undone.
SettleKeepsDebit ==
    \A p \in Procs :
        LET pr == procs[p]
        IN  SettleFailedAfterDebit(pr)
            => /\ Get(pr.result).errorReason
                    \in {"insufficient_funds", "invalid_transaction_state",
                         "unexpected_settle_error"}
               /\ utxoDb = UtxoDbAfterDebit(pr)
               /\ addressDb = AddressDbAfterDebit(pr)
               /\ <<utxoDb, addressDb>> # before

\* C33 happens: a settlePayment call has debited an entry and then failed
\* for lack of funds in the wallet of the facilitator.
SettleKeepsDebitWitness ==
    \E p \in Procs :
        /\ SettleFailedAfterDebit(procs[p])
        /\ Get(procs[p].result).errorReason = "insufficient_funds"
        /\ StoreHas(utxoDb, Get(procs[p].utxoId))
        /\ utxoDb[Get(procs[p].utxoId)].totalDebitedSat > 0

\* settlePayment has returned to the caller of pr after a verification
\* that was valid
SettledAfterDebit(pr) ==
    /\ Settled(pr)
    /\ IsSome(pr.verification)
    /\ Get(pr.verification).isValid

\* the call of pr is a settlePayment and the second call, its debit has
\* been accepted, and the call before it was a verifyPayment with the same
\* payload and the same requirements whose debit of the same output was
\* accepted: the debits accepted on the output are these two
SecondOfSame(pr) ==
    /\ calls = 2
    /\ IsSome(pr.req)
    /\ IsSome(pr.utxoId)
    /\ ReqOf(pr).kind = "settle"
    /\ debitors[Get(pr.utxoId)]
         = {<<"verify", PayloadOf(pr)>>, <<"settle", PayloadOf(pr)>>}

\* C34: when calls run one at a time, a settlePayment call whose
\* verification is valid debits the ledger by the cost once: the entry it
\* leaves has the remaining balance of the entry it found (or the value of
\* the output) less the cost, and the total debited plus the cost, and is
\* deleted when an entry it found is left with nothing.  So after a
\* verifyPayment and a settlePayment with the same payload and requirements
\* the output of value V is debited twice, remaining V - 2 * cost (deleted
\* when that is zero), for at most one broadcast.
SettleDebitsAgain ==
    \A p \in Procs :
        LET pr == procs[p]
            utxoId == Get(pr.utxoId)
            V == Get(chain[utxoId]).valueSats
            c == CostOf(pr)
            found == StoreHas(before[1], utxoId)
            remaining == (IF found THEN before[1][utxoId].remainingBalanceSat
                          ELSE V) - c
            debited == (IF found THEN before[1][utxoId].totalDebitedSat
                        ELSE 0) + c
        IN  SettledAfterDebit(pr)
            => /\ Get(pr.verification).remainingBalanceSat = Some(remaining)
               /\ IF found /\ remaining = 0
                  THEN ~StoreHas(utxoDb, utxoId)
                  ELSE /\ StoreHas(utxoDb, utxoId)
                       /\ utxoDb[utxoId].remainingBalanceSat = remaining
                       /\ utxoDb[utxoId].totalDebitedSat = debited
               /\ SecondOfSame(pr)
                  => /\ remaining = V - 2 * c
                     /\ accepted[utxoId] = 2 * c
                     /\ pr.sends <= 1
                     /\ Get(pr.result).success => pr.sends = 1

\* C34 happens: a verifyPayment and then a settlePayment with the same
\* payload and requirements have been accepted, one transaction has been
\* sent, and the entry has been debited twice and is not consumed.
SettleDebitsAgainWitness ==
    \E p \in Procs :
        /\ SettledAfterDebit(procs[p])
        /\ SecondOfSame(procs[p])
        /\ Get(procs[p].result).success
        /\ StoreHas(utxoDb, Get(procs[p].utxoId))
        /\ utxoDb[Get(procs[p].utxoId)].totalDebitedSat
             = 2 * CostOf(procs[p])
        /\ utxoDb[Get(procs[p].utxoId)].remainingBalanceSat > 0

\* the list of the address in the store, or nothing when the store has no
\* such key
ListAt(db, address) == IF StoreHas(db, address) THEN Some(db[address]) ELSE None

\* C35: when calls run one at a time, a debit of an entry that UtxoDB
\* holds is accepted whenever the remaining balance of the entry covers
\* the cost, whoever the payer of the call is; when the payer of the call
\* is not the payerAddress of the entry, the debit is applied to UtxoDB
\* and the list of the payerAddress of the entry in AddressDB is as it
\* was.
AnyPayerDebits ==
    \A p \in Procs :
        LET pr == procs[p]
            utxoId == Get(pr.utxoId)
            entry == before[1][utxoId]
        IN  (/\ pr.pc = "done"
             /\ ReqOf(pr).kind = "verify"
             /\ IsSome(pr.utxoId)
             /\ StoreHas(before[1], utxoId)
             /\ entry.remainingBalanceSat >= CostOf(pr))
            => /\ Get(pr.result).isValid
               /\ Get(pr.result).remainingBalanceSat
                    = Some(entry.remainingBalanceSat - CostOf(pr))
               /\ PayerOf(pr) # entry.payerAddress
                  => /\ ListAt(addressDb, entry.payerAddress)
                          = ListAt(before[2], entry.payerAddress)
                     /\ IF entry.remainingBalanceSat = CostOf(pr)
                        THEN ~StoreHas(utxoDb, utxoId)
                        ELSE /\ StoreHas(utxoDb, utxoId)
                             /\ utxoDb[utxoId].payerAddress
                                  = entry.payerAddress
                             /\ utxoDb[utxoId].remainingBalanceSat
                                  = entry.remainingBalanceSat - CostOf(pr)

\* C35 happens: a verifyPayment of a payer has consumed the entry of
\* another payer, whose list in AddressDB still holds the entry with the
\* balance it had.
AnyPayerDebitsWitness ==
    \E p \in Procs :
        LET pr == procs[p]
            utxoId == Get(pr.utxoId)
        IN  /\ VerifiedValid(pr)
            /\ ~IsCheckMyTab(pr)
            /\ StoreHas(before[1], utxoId)
            /\ before[1][utxoId].payerAddress # PayerOf(pr)
            /\ CostOf(pr) > 0
            /\ ~StoreHas(utxoDb, utxoId)
            /\ StoreHas(addressDb, before[1][utxoId].payerAddress)
            /\ findIndex(addressDb[before[1][utxoId].payerAddress], utxoId) > 0

\* the call of pr names its output, has returned, and the only operation
\* that failed in it is the get of UtxoDB, for an entry that UtxoDB held
\* partly debited
GetFailedOnStored(pr) ==
    /\ pr.pc = "done"
    /\ IsSome(pr.req)
    /\ ~ShapeFails(pr)
    /\ ~IsCheckMyTab(pr)
    /\ pr.threw = {"utxoDb.get"}
    /\ StoreHas(before[1], Get(pr.utxoId))
    /\ before[1][Get(pr.utxoId)].totalDebitedSat > 0
    /\ before[1][Get(pr.utxoId)].remainingBalanceSat > 0

\* C36: when utxoDb.get fails in a call that names its output, for an
\* entry that UtxoDB holds partly debited, the call asks the Chain Client
\* as for an unknown output: when the value V of the output covers the cost
\* c the call returns valid with remaining V - c, and UtxoDB[utxoId] is a
\* fresh record of this call with remainingBalanceSat V - c and
\* totalDebitedSat c; when it does not, the call is refused with
\* insufficient_utxo_balance and the entry is as it was.
FailedGetRevalidates ==
    \A p \in Procs :
        LET pr == procs[p]
            utxoId == Get(pr.utxoId)
            V == Get(chain[utxoId]).valueSats
            c == CostOf(pr)
        IN  GetFailedOnStored(pr)
            => /\ "chain" \in pr.called
               /\ IF c <= V
                  THEN /\ Get(pr.verification).isValid
                       /\ Get(pr.verification).remainingBalanceSat
                            = Some(V - c)
                       /\ StoreHas(utxoDb, utxoId)
                       /\ utxoDb[utxoId].remainingBalanceSat = V - c
                       /\ utxoDb[utxoId].totalDebitedSat = c
                       /\ utxoDb[utxoId].transactionValueSat = V
                       /\ utxoDb[utxoId].payerAddress = PayerOf(pr)
                       /\ utxoDb[utxoId].firstSeen = now
                  ELSE /\ ~Get(pr.verification).isValid
                       /\ Get(pr.verification).invalidReason
                            = "insufficient_utxo_balance"
                       /\ utxoDb = before[1]

\* C36 happens: the get of UtxoDB has failed for an entry that an earlier
\* call left partly debited, and the entry has been replaced by a fresh
\* record of the later call.
FailedGetRevalidatesWitness ==
    \E p \in Procs :
        /\ GetFailedOnStored(procs[p])
        /\ Get(procs[p].verification).isValid
        /\ utxoDb[Get(procs[p].utxoId)].firstSeen
             > before[1][Get(procs[p].utxoId)].firstSeen
        /\ utxoDb[Get(procs[p].utxoId)].totalDebitedSat = CostOf(procs[p])

=============================================================================
